---- MODULE Spec2Model ----
(***************************************************************************)
(* BuildRelay worker: the queue-driven job state machine of                *)
(* src/worker/worker.py with the ingest resolver, the content-delivery     *)
(* driver and the release-channel (Steam) driver it calls.                 *)
(*                                                                         *)
(* The four Valkey lists are sequences of JSON texts.  A JSON text is a    *)
(* sequence of tokens "{", k1, v1, k2, v2, ..., "}"; a Python dict is the  *)
(* insertion-ordered sequence of its <<key, value>> pairs.                 *)
(***************************************************************************)
EXTENDS Integers, Sequences, FiniteSets, TLC

(***************************************************************************)
(* Bounds of the model.                                                    *)
(***************************************************************************)
MaxPayloads == 2

JobNumbers == 1..MaxPayloads

(***************************************************************************)
(* Python dict: insertion-ordered pairs.  d[k] = v keeps the position of   *)
(* an existing key and appends a new one.                                  *)
(***************************************************************************)
DictHas(d, k) == \E i \in 1..Len(d) : d[i][1] = k

DictGet(d, k, default) ==
  IF DictHas(d, k)
    THEN d[CHOOSE i \in 1..Len(d) : d[i][1] = k][2]
    ELSE default

DictSet(d, k, v) ==
  IF DictHas(d, k)
    THEN [i \in 1..Len(d) |-> IF d[i][1] = k THEN <<k, v>> ELSE d[i]]
    ELSE Append(d, <<k, v>>)

(***************************************************************************)
(* json.dumps / json.loads.                                                *)
(***************************************************************************)
Dumps(d) ==
  <<"{">> \o
  [i \in 1..(2 * Len(d)) |->
     IF i % 2 = 1 THEN d[(i + 1) \div 2][1] ELSE d[i \div 2][2]] \o
  <<"}">>

JsonKind(raw) ==
  IF Len(raw) >= 2 /\ raw[1] = "{" /\ raw[Len(raw)] = "}" /\ Len(raw) % 2 = 0
    THEN "object"
  ELSE IF Len(raw) >= 2 /\ raw[1] = "[" /\ raw[Len(raw)] = "]"
    THEN "array"
  ELSE "invalid"

Loads(raw) ==
  [i \in 1..((Len(raw) - 2) \div 2) |-> <<raw[2 * i], raw[2 * i + 1]>>]

(***************************************************************************)
(* redis LREM key 0 value / RPUSH key value.                               *)
(***************************************************************************)
\* Fault variant: the oldest entry is removed, whatever it is (LPOP).
LRem_oldest(list, value) == IF list = <<>> THEN list ELSE Tail(list)

LRem(list, value) == SelectSeq(list, LAMBDA e : e # value)

RPush(list, value) == Append(list, value)

(***************************************************************************)
(* redis BLPOP key: the head of a non-empty list, and the list left.       *)
(***************************************************************************)
\* Fault variant: the entry is taken from the tail (BRPOP).
BLPop_tail(list) ==
  [value |-> list[Len(list)], rest |-> SubSeq(list, 1, Len(list) - 1)]

BLPop(list) == [value |-> Head(list), rest |-> Tail(list)]

(***************************************************************************)
(* The filesystem the worker sees (os.path.exists / isfile / isdir): the   *)
(* ingest area as found, plus the files and directories the worker made.   *)
(* The disk outlives the worker process and unzip_build never removes what *)
(* it extracts, so the area as found may hold an extract_<id> directory of *)
(* an earlier extraction: here the one named after the first job id.       *)
(***************************************************************************)
IngestKind(p) ==
  CASE p = "/in/build" -> "dir"
    [] p = "/in/extract_j1" -> "dir"
    [] p = "/in/build.zip" -> "file"
    [] p = "/in/game.bin" -> "file"
    [] p = "/in/pipe" -> "other"
    [] OTHER -> "missing"

PathKind(made, p) ==
  IF \E c \in made : c.path = p
    THEN (CHOOSE c \in made : c.path = p).kind
    ELSE IngestKind(p)

EndsWithZip(p) == p = "/in/build.zip"

Dirname(p) ==
  IF p \in {"/in/build", "/in/build.zip", "/in/game.bin", "/in/pipe", "/in/gone"}
    THEN "/in"
    ELSE "/tmp"

Basename(p) ==
  CASE p = "/in/build" -> "build"
    [] p = "/in/build.zip" -> "build.zip"
    [] p = "/in/game.bin" -> "game.bin"
    [] p = "/in/pipe" -> "pipe"
    [] p = "/in/gone" -> "gone"
    [] \E n \in JobNumbers : p = "/tmp/j" \o ToString(n) \o ".zip" ->
         LET k == CHOOSE m \in JobNumbers :
                    p = "/tmp/j" \o ToString(m) \o ".zip"
         IN "j" \o ToString(k) \o ".zip"
    [] OTHER -> p

(***************************************************************************)
(* Channel configurations and the job payloads placed on the work queue.   *)
(***************************************************************************)
CdnChannel(label, bucket) ==
  [label |-> label, region |-> "us-east-1", accessKeyId |-> "k",
   secretAccessKey |-> "s", bucketName |-> bucket, path |-> "",
   endpoint |-> "", isPublic |-> FALSE]

SteamChannel(label, appId) ==
  [label |-> label, appId |-> appId,
   depots |-> <<[id |-> "1", path |-> "."]>>, branch |-> "beta"]

JobTemplates ==
  { [ingestPath |-> "build", absoluteIngestPath |-> "/in/build",
     cdn_channels |-> <<>>, steam_channels |-> <<>>],
    [ingestPath |-> "build", absoluteIngestPath |-> "/in/build",
     cdn_channels |-> <<[CdnChannel("c1", "locked") EXCEPT
                           !.path = "/builds/",
                           !.endpoint = "http://minio:9000",
                           !.isPublic = TRUE],
                        CdnChannel("c2", "b")>>,
     steam_channels |-> <<SteamChannel("s1", "123"), SteamChannel("s2", "456")>>],
    [ingestPath |-> "game.bin", absoluteIngestPath |-> "/in/game.bin",
     cdn_channels |-> <<[CdnChannel("c1", "b") EXCEPT
                           !.path = "builds", !.isPublic = TRUE],
                        CdnChannel("c2", "")>>,
     steam_channels |-> <<SteamChannel("s1", "123")>>],
    [ingestPath |-> "build.zip", absoluteIngestPath |-> "/in/build.zip",
     cdn_channels |-> <<>>,
     steam_channels |-> <<SteamChannel("s1", "123"), SteamChannel("s2", "")>>],
    [ingestPath |-> "game.bin", absoluteIngestPath |-> "/in/game.bin",
     cdn_channels |-> <<>>,
     steam_channels |-> <<[SteamChannel("s1", "123") EXCEPT !.branch = ""]>>],
    [ingestPath |-> "gone", absoluteIngestPath |-> "/in/gone",
     cdn_channels |-> <<CdnChannel("c1", "b")>>,
     steam_channels |-> <<SteamChannel("s1", "123")>>],
    [ingestPath |-> "", absoluteIngestPath |-> "",
     cdn_channels |-> <<CdnChannel("c1", "b")>>,
     steam_channels |-> <<>>] }

JobId(n) == "j" \o ToString(n)

JobIds == {JobId(n) : n \in JobNumbers}

JobPayload(n, t) ==
  Dumps(<< <<"id", JobId(n)>>, <<"status", "queued">>,
           <<"ingestPath", t.ingestPath>>,
           <<"absoluteIngestPath", t.absoluteIngestPath>>,
           <<"cdn_channels", t.cdn_channels>>,
           <<"steam_channels", t.steam_channels>> >>)

BadPayloads ==
  { <<"{", "id">>,
    <<"[", "]">>,
    <<"{", "status", "queued", "}">> }

(***************************************************************************)
(* State.                                                                  *)
(***************************************************************************)
Workers == {"w1", "w2"}

Idle ==
  [pc |-> "blpop", job |-> <<>>, current_job |-> <<>>, file_path |-> "",
   idx |-> 0, results |-> <<>>]

VARIABLES
  queued_jobs, running_jobs, complete_jobs, failed_jobs,
  pc, job, current_job, file_path, idx, results,
  steam_username, clock, created, enqueued, popped, calls, notified,
  workers, vdf_files, spawned, taken

vars == <<queued_jobs, running_jobs, complete_jobs, failed_jobs,
          pc, job, current_job, file_path, idx, results,
          steam_username, clock, created, enqueued, popped, calls,
          notified, workers, vdf_files, spawned, taken>>

(***************************************************************************)
(* The state of a deployment with two worker processes on one Valkey and   *)
(* one filesystem: the locals of each process, the descriptor files on     *)
(* disk, what each spawned uploader read, and which process took which     *)
(* job.  A single worker leaves these alone.                               *)
(***************************************************************************)
fleet == <<workers, vdf_files, spawned, taken>>

Init ==
  /\ queued_jobs = <<>>
  /\ running_jobs = <<>>
  /\ complete_jobs = <<>>
  /\ failed_jobs = <<>>
  /\ pc = "blpop"
  /\ job = <<>>
  /\ current_job = <<>>
  /\ file_path = ""
  /\ idx = 0
  /\ results = <<>>
  /\ steam_username \in {"", "builder"}
  /\ clock = 0
  /\ created = {}
  /\ enqueued = <<>>
  /\ popped = <<>>
  /\ calls = [j \in JobIds |-> <<>>]
  /\ notified = <<>>
  /\ workers = [w \in Workers |-> Idle]
  /\ vdf_files = <<>>
  /\ spawned = {}
  /\ taken = {}

(***************************************************************************)
(* datetime.utcnow().isoformat() + "Z": every reading of the clock is a    *)
(* later instant.                                                          *)
(***************************************************************************)
Stamp(c) == "T" \o ToString(c) \o "Z"

(***************************************************************************)
(* Producer side of the work queue: a job payload with a fresh id, or a    *)
(* payload that is not a job.                                              *)
(***************************************************************************)
Enqueue ==
  /\ Len(enqueued) < MaxPayloads
  /\ \E t \in JobTemplates :
       queued_jobs' = RPush(queued_jobs, JobPayload(Len(enqueued) + 1, t))
  /\ enqueued' = Append(enqueued, JobId(Len(enqueued) + 1))
  /\ UNCHANGED <<running_jobs, complete_jobs, failed_jobs, pc, job,
                 current_job, file_path, idx, results, steam_username, fleet, clock,
                 created, popped, calls, notified>>

EnqueueBad ==
  /\ Len(enqueued) < MaxPayloads
  /\ \E raw \in BadPayloads : queued_jobs' = RPush(queued_jobs, raw)
  /\ enqueued' = Append(enqueued, "not a job")
  /\ UNCHANGED <<running_jobs, complete_jobs, failed_jobs, pc, job,
                 current_job, file_path, idx, results, steam_username, fleet, clock,
                 created, popped, calls, notified>>

(***************************************************************************)
(* NotificationService (libs/notifications.py).  What happens to the       *)
(* webhook request is the outcome; every path of send_job_notification     *)
(* returns normally: nothing to send to, a delivered message, an HTTP      *)
(* error status (printed), an exception of the request (caught, printed).  *)
(***************************************************************************)
WebhookOutcomes ==
  {"not configured", "delivered", "http error", "connection error", "timeout"}

\* Fault variant: the webhook request is made outside the try block.
send_job_notification_unguarded(outcome) ==
  IF outcome \in {"connection error", "timeout"}
    THEN [ok |-> FALSE, val |-> "", err |-> outcome]
    ELSE [ok |-> TRUE, val |-> "", err |-> ""]

send_job_notification(outcome) == [ok |-> TRUE, val |-> "", err |-> ""]

(***************************************************************************)
(* What a call of the service can come back with, over every outcome of    *)
(* the webhook request.                                                    *)
(***************************************************************************)
NotificationReturns ==
  {send_job_notification(outcome) : outcome \in WebhookOutcomes}

(***************************************************************************)
(* The record of one invocation of the notification service: the job       *)
(* passed, the status and error passed, and whether the job as passed was  *)
(* already on the terminal list when the call was made.                    *)
(***************************************************************************)
Notify(log, j, status, error, list) ==
  Append(log, [id |-> DictGet(j, "id", "unknown"), status |-> status,
               error |-> error,
               persisted |-> \E i \in 1..Len(list) : list[i] = Dumps(j)])

(***************************************************************************)
(* abbort_job (worker.py 45-62).                                           *)
(***************************************************************************)
AbortRemovalKey(j, snapshot) == Dumps(j)

FailedRecord(j, error_message) ==
  DictSet(DictSet(j, "status", "failed"), "error", error_message)

\* Fault variant: the failed job is also pushed back on the work queue (retry).
abbort_job_requeue(j, snapshot, error_message) ==
  /\ running_jobs' = LRem(running_jobs, AbortRemovalKey(j, snapshot))
  /\ failed_jobs' = RPush(failed_jobs, Dumps(FailedRecord(j, error_message)))
  /\ queued_jobs' = RPush(queued_jobs, Dumps(FailedRecord(j, error_message)))
  /\ notified' = Notify(notified, FailedRecord(j, error_message), "failed",
                        error_message, failed_jobs')
  /\ UNCHANGED complete_jobs

\* Fault variant: the failed job is pushed on the complete list.
abbort_job_wrong_list(j, snapshot, error_message) ==
  /\ running_jobs' = LRem(running_jobs, AbortRemovalKey(j, snapshot))
  /\ complete_jobs' = RPush(complete_jobs, Dumps(FailedRecord(j, error_message)))
  /\ notified' = Notify(notified, FailedRecord(j, error_message), "failed",
                        error_message, complete_jobs')
  /\ UNCHANGED <<queued_jobs, failed_jobs>>

\* Fault variant: the failure is not notified.
abbort_job_silent(j, snapshot, error_message) ==
  /\ running_jobs' = LRem(running_jobs, AbortRemovalKey(j, snapshot))
  /\ failed_jobs' = RPush(failed_jobs, Dumps(FailedRecord(j, error_message)))
  /\ UNCHANGED <<queued_jobs, complete_jobs, notified>>

abbort_job(j, snapshot, error_message) ==
  /\ running_jobs' = LRem(running_jobs, AbortRemovalKey(j, snapshot))
  /\ failed_jobs' = RPush(failed_jobs, Dumps(FailedRecord(j, error_message)))
  /\ notified' = Notify(notified, FailedRecord(j, error_message), "failed",
                        error_message, failed_jobs')
  /\ UNCHANGED <<queued_jobs, complete_jobs>>

(***************************************************************************)
(* The except branch of the main loop (worker.py 283-287): abort and go    *)
(* back to the blocking dequeue.  An exception leaving abbort_job would     *)
(* leave the loop.                                                         *)
(***************************************************************************)
\* Fault variant: the error text is replaced by a fixed message.
AbortMessage_generic(e) == "Job processing failed"

AbortMessage(e) == "Job processing failed: " \o e

\* Fault variant: the error is logged and the job goes on with the next phase.
JobFailed_swallowed(j, e) ==
  /\ pc' = IF pc \in {"cdn", "cdn_loop"} THEN "steam" ELSE "complete"
  /\ idx' = 0
  /\ results' = <<>>
  /\ UNCHANGED <<queued_jobs, running_jobs, complete_jobs, failed_jobs,
                 notified, job, current_job, file_path>>

\* Fault variant: the error is only logged and the loop continues.
JobFailed_dropped(j, e) ==
  /\ pc' = "blpop"
  /\ job' = <<>>
  /\ current_job' = <<>>
  /\ file_path' = ""
  /\ idx' = 0
  /\ results' = <<>>
  /\ UNCHANGED <<queued_jobs, running_jobs, complete_jobs, failed_jobs,
                 notified>>

JobFailed(j, e) ==
  /\ abbort_job(j, current_job, AbortMessage(e))
  /\ \E sent \in NotificationReturns :
       pc' = IF sent.ok THEN "blpop" ELSE "crashed"
  /\ job' = <<>>
  /\ current_job' = <<>>
  /\ file_path' = ""
  /\ idx' = 0
  /\ results' = <<>>

Call(kind, i, ok, drv, io, rc, err) ==
  [kind |-> kind, idx |-> i, ok |-> ok, drv |-> drv, io |-> io, rc |-> rc,
   err |-> err, out |-> <<>>, log |-> <<>>, acc |-> <<>>, vdf |-> <<>>]

(***************************************************************************)
(* for channel in channels: the channel of the i-th iteration, and its     *)
(* position in the configured list.                                        *)
(***************************************************************************)
\* Fault variant: the channels are visited last to first.
ChannelAt_reversed(channels, i) == channels[Len(channels) + 1 - i]

ChannelAt(channels, i) == channels[i]

Position(channels, channel) ==
  CHOOSE i \in 1..Len(channels) : channels[i] = channel

Record(j, c) ==
  calls' = [calls EXCEPT ![DictGet(j, "id", "")] = Append(@, c)]

(***************************************************************************)
(* Main loop, worker.py 267-280, and the start of handle_job, 204-215.     *)
(***************************************************************************)
StartedJob(j, c) ==
  DictSet(DictSet(j, "status", "running"), "startedAt", Stamp(c))

\* Fault variant: the push on the running list is left out.
RunningAfterStart_skipped(list, snapshot) == list

RunningAfterStart(list, snapshot) == RPush(list, snapshot)

\* Fault variant: the undecodable payload is pushed on the failed list.
DequeueInvalid_dead_letter ==
  /\ pc = "blpop"
  /\ queued_jobs # <<>>
  /\ JsonKind(BLPop(queued_jobs).value) = "invalid"
  /\ queued_jobs' = BLPop(queued_jobs).rest
  /\ failed_jobs' = RPush(failed_jobs, BLPop(queued_jobs).value)
  /\ popped' = Append(popped, "invalid")
  /\ UNCHANGED <<running_jobs, complete_jobs, pc, job, current_job,
                 file_path, idx, results, steam_username, fleet, clock, created,
                 enqueued, calls, notified>>

DequeueInvalid ==
  /\ pc = "blpop"
  /\ queued_jobs # <<>>
  /\ JsonKind(BLPop(queued_jobs).value) = "invalid"
  /\ queued_jobs' = BLPop(queued_jobs).rest
  /\ popped' = Append(popped, "invalid")
  /\ UNCHANGED <<running_jobs, complete_jobs, failed_jobs, pc, job,
                 current_job, file_path, idx, results, steam_username, fleet, clock,
                 created, enqueued, calls, notified>>

DequeueCrash ==
  /\ pc = "blpop"
  /\ queued_jobs # <<>>
  /\ \/ JsonKind(BLPop(queued_jobs).value) = "array"
     \/ /\ JsonKind(BLPop(queued_jobs).value) = "object"
        /\ ~DictHas(Loads(BLPop(queued_jobs).value), "id")
  /\ queued_jobs' = BLPop(queued_jobs).rest
  /\ popped' = Append(popped, "not a job")
  /\ pc' = "crashed"
  /\ UNCHANGED <<running_jobs, complete_jobs, failed_jobs, job, current_job,
                 file_path, idx, results, steam_username, fleet, clock, created,
                 enqueued, calls, notified>>

DequeueJob ==
  /\ pc = "blpop"
  /\ queued_jobs # <<>>
  /\ JsonKind(BLPop(queued_jobs).value) = "object"
  /\ DictHas(Loads(BLPop(queued_jobs).value), "id")
  /\ LET started == StartedJob(Loads(BLPop(queued_jobs).value), clock + 1)
     IN /\ current_job' = Dumps(started)
        /\ running_jobs' = RunningAfterStart(running_jobs, Dumps(started))
        /\ job' = DictSet(started, "upload_results",
                          [cdn |-> <<>>, steam |-> <<>>])
  /\ queued_jobs' = BLPop(queued_jobs).rest
  /\ popped' = Append(popped, DictGet(Loads(BLPop(queued_jobs).value), "id", ""))
  /\ clock' = clock + 1
  /\ pc' = "cdn"
  /\ UNCHANGED <<complete_jobs, failed_jobs, file_path, idx, results,
                 steam_username, fleet, created, enqueued, calls, notified>>

(***************************************************************************)
(* End of handle_job, worker.py 252-260.                                   *)
(***************************************************************************)
\* Fault variant: the removal key is serialized again from the mutated dict.
CompleteRemovalKey_recomputed(j, snapshot) == Dumps(j)

CompleteRemovalKey(j, snapshot) == snapshot

CompletedJob(j, c) ==
  DictSet(DictSet(j, "status", "complete"), "completedAt", Stamp(c))

Complete ==
  /\ pc = "complete"
  /\ \E sent \in NotificationReturns :
       LET done == CompletedJob(job, clock + 1)
           removed == LRem(running_jobs, CompleteRemovalKey(job, current_job))
           failed == FailedRecord(done, AbortMessage(sent.err))
       IN /\ complete_jobs' = RPush(complete_jobs, Dumps(done))
          /\ IF sent.ok
               THEN /\ running_jobs' = removed
                    /\ notified' =
                         Notify(notified, done, "completed", "", complete_jobs')
                    /\ UNCHANGED failed_jobs
               ELSE \* the exception leaves handle_job: worker.py 283-287
                    /\ running_jobs' = LRem(removed, AbortRemovalKey(done, current_job))
                    /\ failed_jobs' = RPush(failed_jobs, Dumps(failed))
                    /\ notified' =
                         Notify(Notify(notified, done, "completed", "",
                                       complete_jobs'),
                                failed, "failed", AbortMessage(sent.err),
                                failed_jobs')
  /\ clock' = clock + 1
  /\ pc' = "blpop"
  /\ job' = <<>>
  /\ current_job' = <<>>
  /\ file_path' = ""
  /\ idx' = 0
  /\ results' = <<>>
  /\ UNCHANGED <<queued_jobs, steam_username, fleet, created, enqueued, popped, calls>>

(***************************************************************************)
(* Results of calls that may raise: ok with a value, or an error text.     *)
(***************************************************************************)
Return(v) == [ok |-> TRUE, val |-> v, err |-> ""]

Raise(e) == [ok |-> FALSE, val |-> "", err |-> e]

(***************************************************************************)
(* zip_build / unzip_build (libs/zip.py).                                  *)
(***************************************************************************)
ZipPath(job_id) == "/tmp/" \o job_id \o ".zip"

ExtractDir(zip_path, job_id) == Dirname(zip_path) \o "/extract_" \o job_id

(***************************************************************************)
(* get_cdn_file_path (worker.py 65-96); zipOk: whether make_archive works. *)
(***************************************************************************)
\* Fault variant: a directory is returned as it is, without archiving.
get_cdn_file_path_no_zip(j, made, zipOk) ==
  LET p == DictGet(j, "absoluteIngestPath", "")
  IN IF p = "" \/ PathKind(made, p) = "missing"
       THEN Raise("Build path does not exist: " \o p)
     ELSE IF PathKind(made, p) \in {"file", "dir"}
       THEN Return(p)
     ELSE Raise("Invalid path: " \o p)

get_cdn_file_path(j, made, zipOk) ==
  LET p == DictGet(j, "absoluteIngestPath", "")
  IN IF p = "" \/ PathKind(made, p) = "missing"
       THEN Raise("Build path does not exist: " \o p)
     ELSE IF PathKind(made, p) = "file"
       THEN Return(p)
     ELSE IF PathKind(made, p) = "dir"
       THEN IF zipOk
              THEN Return(ZipPath(DictGet(j, "id", "")))
              ELSE Raise("Error creating zip: archive")
     ELSE Raise("Invalid path: " \o p)

(***************************************************************************)
(* get_steam_build_path (worker.py 99-133); unzipOk: whether extractall    *)
(* works.                                                                  *)
(***************************************************************************)
\* Fault variant: a file that is not an archive is returned as it is.
get_steam_build_path_loose_file(j, made, unzipOk) ==
  LET p == DictGet(j, "absoluteIngestPath", "")
  IN IF p = "" \/ PathKind(made, p) = "missing"
       THEN Raise("Build path does not exist: " \o p)
     ELSE IF PathKind(made, p) = "dir"
       THEN Return(p)
     ELSE IF PathKind(made, p) = "file"
       THEN IF EndsWithZip(p)
              THEN IF unzipOk
                     THEN Return(ExtractDir(p, DictGet(j, "id", "")))
                     ELSE Raise("Error extracting zip: archive")
              ELSE Return(p)
     ELSE Raise("Invalid path: " \o p)

\* Fault variant: the directory case is missing.
get_steam_build_path_no_dir(j, made, unzipOk) ==
  LET p == DictGet(j, "absoluteIngestPath", "")
  IN IF p = "" \/ PathKind(made, p) = "missing"
       THEN Raise("Build path does not exist: " \o p)
     ELSE IF PathKind(made, p) = "file"
       THEN IF EndsWithZip(p)
              THEN IF unzipOk
                     THEN Return(ExtractDir(p, DictGet(j, "id", "")))
                     ELSE Raise("Error extracting zip: archive")
              ELSE Return(Dirname(p))
     ELSE Raise("Invalid path: " \o p)

get_steam_build_path(j, made, unzipOk) ==
  LET p == DictGet(j, "absoluteIngestPath", "")
  IN IF p = "" \/ PathKind(made, p) = "missing"
       THEN Raise("Build path does not exist: " \o p)
     ELSE IF PathKind(made, p) = "dir"
       THEN Return(p)
     ELSE IF PathKind(made, p) = "file"
       THEN IF EndsWithZip(p)
              THEN IF unzipOk
                     THEN Return(ExtractDir(p, DictGet(j, "id", "")))
                     ELSE Raise("Error extracting zip: archive")
              ELSE Return(Dirname(p))
     ELSE Raise("Invalid path: " \o p)

(***************************************************************************)
(* The guard of each phase of handle_job (worker.py 219 and 237).          *)
(***************************************************************************)
\* Fault variant: the phase runs whenever the ingest paths are set.
PhaseEnabled_ignores_channels(j, key) ==
  /\ DictGet(j, "ingestPath", "") # ""
  /\ DictGet(j, "absoluteIngestPath", "") # ""

\* Fault variant: the phase runs whenever the job has channels of the kind.
PhaseEnabled_ignores_path(j, key) == DictGet(j, key, <<>>) # <<>>

PhaseEnabled(j, key) ==
  /\ DictGet(j, key, <<>>) # <<>>
  /\ DictGet(j, "ingestPath", "") # ""
  /\ DictGet(j, "absoluteIngestPath", "") # ""

(***************************************************************************)
(* CDNUploader (lib/cdn.py): __init__ with _init_s3_client, upload_file.   *)
(* transferOk: whether the object-storage transfer works.                  *)
(***************************************************************************)
\* Fault variant: the bucket name is not among the validated fields.
MissingCdnField_no_bucket(config) ==
  IF config.region = "" THEN "region"
  ELSE IF config.accessKeyId = "" THEN "accessKeyId"
  ELSE IF config.secretAccessKey = "" THEN "secretAccessKey"
  ELSE ""

MissingCdnField(config) ==
  IF config.region = "" THEN "region"
  ELSE IF config.accessKeyId = "" THEN "accessKeyId"
  ELSE IF config.secretAccessKey = "" THEN "secretAccessKey"
  ELSE IF config.bucketName = "" THEN "bucketName"
  ELSE ""

(***************************************************************************)
(* An entry of what a driver did: a line read from a subprocess, a line    *)
(* sent to the job's log (LogStream.log), the wait for a process to exit.  *)
(***************************************************************************)
StreamEvent(op, n, line) == [op |-> op, n |-> n, line |-> line]

(***************************************************************************)
(* str.strip('/') on the path prefixes that occur.                         *)
(***************************************************************************)
StripSlashes(prefix) ==
  CASE prefix = "/builds/" -> "builds"
    [] prefix = "/" -> ""
    [] OTHER -> prefix

\* Fault variant: the path prefix is left out of the key.
S3Key_no_prefix(config, path) == Basename(path)

S3Key(config, path) ==
  LET path_prefix == StripSlashes(config.path)
      file_name == Basename(path)
  IN IF path_prefix # ""
       THEN path_prefix \o "/" \o file_name
       ELSE file_name

PublicUrl(config, key) ==
  IF config.endpoint # ""
    THEN config.endpoint \o "/" \o config.bucketName \o "/" \o key
    ELSE "https://" \o config.bucketName \o ".s3." \o config.region \o
         ".amazonaws.com/" \o key

(***************************************************************************)
(* put_object_acl: the object store of bucket "locked" refuses ACLs.       *)
(***************************************************************************)
PutObjectAcl(config) ==
  IF config.bucketName = "locked"
    THEN Raise("AccessControlListNotSupported")
    ELSE Return("")

\* Fault variant: a refused public-read policy fails the upload.
CDNUpload_acl_fatal(config, path, made, transferOk) ==
  IF MissingCdnField(config) # ""
    THEN Raise("CDN destination must include '" \o MissingCdnField(config) \o "'")
  ELSE IF PathKind(made, path) = "missing"
    THEN Raise("File not found: " \o path)
  ELSE IF ~transferOk
    THEN Raise("Failed to upload " \o path)
  ELSE IF config.isPublic /\ ~PutObjectAcl(config).ok
    THEN PutObjectAcl(config)
  ELSE Return(PublicUrl(config, S3Key(config, path)))

CDNUpload(config, path, made, transferOk) ==
  IF MissingCdnField(config) # ""
    THEN Raise("CDN destination must include '" \o MissingCdnField(config) \o "'")
  ELSE IF PathKind(made, path) = "missing"
    THEN Raise("File not found: " \o path)
  ELSE IF ~transferOk
    THEN Raise("Failed to upload " \o path)
  ELSE Return(PublicUrl(config, S3Key(config, path)))

(***************************************************************************)
(* True when the call reaches the object-storage transfer.                 *)
(***************************************************************************)
CDNTransfers(config, path, made) ==
  MissingCdnField(config) = "" /\ PathKind(made, path) # "missing"

(***************************************************************************)
(* What upload_file logs about the public-read policy (lib/cdn.py          *)
(* 111-124) once the transfer has worked.                                  *)
(***************************************************************************)
AclLog(config, path, made, transferOk) ==
  IF CDNTransfers(config, path, made) /\ transferOk /\ config.isPublic
    THEN <<StreamEvent("log", 0, "Setting object ACL to public..."),
           StreamEvent("log", 0,
                       IF PutObjectAcl(config).ok
                         THEN "Object is now publicly readable"
                         ELSE "Warning: Could not set public ACL: " \o
                              PutObjectAcl(config).err)>>
    ELSE <<>>

(***************************************************************************)
(* SteamVDFBuilder.build_vdf (libs/steam.py 46-103), as far as the worker  *)
(* sees it: the descriptor path, or an error when the file cannot be       *)
(* written.                                                                *)
(***************************************************************************)
VdfPath(app_id) == "/tmp/" \o app_id \o "_build.vdf"

(***************************************************************************)
(* The manifest text as its lines (the text split at newlines).            *)
(* DEPOT_TEMPLATE.format and VDF_TEMPLATE.format (libs/steam.py 8-29,      *)
(* 60-92): a placeholder standing alone on a line is replaced by the       *)
(* lines of its value, so the empty value leaves an empty line and a value *)
(* ending in a newline leaves an empty line after it.                      *)
(***************************************************************************)
DepotLines(depot, build_path) ==
  << "        \"" \o depot.id \o "\"",
     "        {",
     "            \"ContentRoot\" \"" \o build_path \o "/" \o depot.path \o "\"",
     "",
     "            \"FileMapping\"",
     "            {",
     "                \"LocalPath\" \"*\"",
     "                \"DepotPath\" \".\"",
     "                \"Recursive\" \"1\"",
     "            }",
     "        }" >>

RECURSIVE DepotSections(_, _)
DepotSections(depots, build_path) ==
  IF depots = <<>>
    THEN <<>>
    ELSE DepotLines(Head(depots), build_path) \o
         DepotSections(Tail(depots), build_path)

\* Fault variant: the directive is not ended by a newline.
SetLiveLines_no_newline(branch) ==
  IF branch # ""
    THEN << "    \"SetLive\" \"" \o branch \o "\"" >>
    ELSE << "" >>

SetLiveLines(branch) ==
  IF branch # ""
    THEN << "    \"SetLive\" \"" \o branch \o "\"", "" >>
    ELSE << "" >>

VdfContent(app_id, depots, build_path, description, branch) ==
  LET desc == IF description # "" THEN description ELSE "Build from BuildRelay"
  IN << "\"AppBuild\"",
        "{",
        "    \"AppID\" \"" \o app_id \o "\"",
        "    \"Desc\"  \"" \o desc \o "\"" >> \o
     SetLiveLines(branch) \o
     << "    \"Depots\"",
        "    {" >> \o
     (IF depots = <<>> THEN << "" >> ELSE DepotSections(depots, build_path)) \o
     << "    }",
        "}" >>

build_vdf(app_id, writeOk) ==
  IF writeOk
    THEN Return(VdfPath(app_id))
    ELSE Raise("VDF generation failed: cannot write " \o VdfPath(app_id))

(***************************************************************************)
(* SteamUploader (libs/steam.py 105-232).  The subprocess is its exit code *)
(* and the lines it printed.                                               *)
(***************************************************************************)
ExitCodes == {0, 1}

(***************************************************************************)
(* What the subprocess prints: lines of text, each a sequence of pieces    *)
(* (plain text, terminal escape sequences, white space, the newline).      *)
(***************************************************************************)
UploaderOutputs ==
  { << <<"ESC[1m", "Uploading content...", "ESC[0m", " ", "NL">>,
       <<"Successfully finished AppID 123 build (BuildID 9001).", "NL">>,
       <<"Committed as BuildID 9002 of AppID 123.", "NL">> >>,
    << <<"Uploading content...", "NL">>,
       <<"ESC[32m", "Done.", "ESC[0m", "NL">> >> }

Whitespace == {" ", "NL"}

AnsiEscapes == {"ESC[0m", "ESC[1m", "ESC[32m"}

RECURSIVE rstrip(_)
rstrip(line) ==
  IF line # <<>> /\ line[Len(line)] \in Whitespace
    THEN rstrip(SubSeq(line, 1, Len(line) - 1))
    ELSE line

IsText(piece) == piece \notin AnsiEscapes

_strip_ansi(line) == SelectSeq(line, IsText)

RECURSIVE Text(_)
Text(line) == IF line = <<>> THEN "" ELSE Head(line) \o Text(Tail(line))

(***************************************************************************)
(* The read loop of upload_build (libs/steam.py 190-198): each line is     *)
(* read, cleaned, logged and kept, then the exit of the process is         *)
(* awaited.  events is what the driver did, in order.                      *)
(***************************************************************************)
\* The read loop of the fault variant StreamOutput_late.
RECURSIVE ReadLoop_late(_, _, _, _)
ReadLoop_late(stdout, n, events, output_lines) ==
  IF n > Len(stdout)
    THEN [events |-> events \o <<StreamEvent("wait", 0, "")>> \o
                       [i \in 1..Len(output_lines) |->
                          StreamEvent("log", i, output_lines[i])],
          output_lines |-> output_lines]
    ELSE LET clean_line == Text(_strip_ansi(rstrip(stdout[n])))
         IN ReadLoop_late(stdout, n + 1,
                          Append(events, StreamEvent("read", n, "")),
                          Append(output_lines, clean_line))

RECURSIVE ReadLoop(_, _, _, _)
ReadLoop(stdout, n, events, output_lines) ==
  IF n > Len(stdout)
    THEN [events |-> Append(events, StreamEvent("wait", 0, "")),
          output_lines |-> output_lines]
    ELSE LET clean_line == Text(_strip_ansi(rstrip(stdout[n])))
         IN ReadLoop(stdout, n + 1,
                     events \o <<StreamEvent("read", n, ""),
                                 StreamEvent("log", n, clean_line)>>,
                     Append(output_lines, clean_line))

\* Fault variant: the lines are logged only after the process has exited.
StreamOutput_late(stdout) == ReadLoop_late(stdout, 1, <<>>, <<>>)

StreamOutput(stdout) == ReadLoop(stdout, 1, <<>>, <<>>)

LineBuildId(line) ==
  CASE line = "Successfully finished AppID 123 build (BuildID 9001)." -> "9001"
    [] line = "Committed as BuildID 9002 of AppID 123." -> "9002"
    [] OTHER -> ""

\* Fault variant: the last match is taken.
_extract_build_id_last(output) ==
  IF \E i \in 1..Len(output) : LineBuildId(output[i]) # ""
    THEN LET last == CHOOSE i \in 1..Len(output) :
                       /\ LineBuildId(output[i]) # ""
                       /\ \A k \in (i + 1)..Len(output) :
                            LineBuildId(output[k]) = ""
         IN LineBuildId(output[last])
    ELSE ""

_extract_build_id(output) ==
  IF \E i \in 1..Len(output) : LineBuildId(output[i]) # ""
    THEN LET first == CHOOSE i \in 1..Len(output) :
                        /\ LineBuildId(output[i]) # ""
                        /\ \A k \in 1..(i - 1) : LineBuildId(output[k]) = ""
         IN LineBuildId(output[first])
    ELSE ""

\* Fault variant: the branch is reported as applied whenever one was asked.
UploadResult_branch_always(app_id, build_id, branch) ==
  [app_id |-> app_id, build_id |-> build_id, branch_set |-> branch,
   success |-> TRUE, message |-> "Build successfully uploaded to Steam"]

UploadResult(app_id, build_id, branch) ==
  [app_id |-> app_id, build_id |-> build_id,
   branch_set |-> IF build_id # "" /\ branch # "" THEN branch ELSE "",
   success |-> TRUE, message |-> "Build successfully uploaded to Steam"]

(***************************************************************************)
(* The runs of the subprocess: either output with exit code 0, and the     *)
(* run that fails after printing a build identifier.                       *)
(***************************************************************************)
UploaderRuns ==
  {run \in [return_code : ExitCodes, output : UploaderOutputs] :
     \/ run.return_code = 0
     \/ _extract_build_id(StreamOutput(run.output).output_lines) # ""}

\* Fault variant: the output is scanned before the exit code is looked at.
upload_build_scans_first(username, app_id, branch, return_code, output) ==
  LET output_lines == StreamOutput(output).output_lines
  IN IF username = ""
       THEN Raise("STEAM_USERNAME environment variable is required")
     ELSE IF _extract_build_id(output_lines) # ""
       THEN [ok |-> TRUE, err |-> "",
             val |-> UploadResult(app_id, _extract_build_id(output_lines),
                                  branch)]
     ELSE IF return_code # 0
       THEN Raise("SteamPipe upload failed with code " \o ToString(return_code))
     ELSE [ok |-> TRUE, err |-> "",
           val |-> UploadResult(app_id, "", branch)]

upload_build(username, app_id, branch, return_code, output) ==
  LET output_lines == StreamOutput(output).output_lines
  IN IF username = ""
       THEN Raise("STEAM_USERNAME environment variable is required")
     ELSE IF return_code # 0
       THEN Raise("SteamPipe upload failed with code " \o ToString(return_code))
     ELSE [ok |-> TRUE, err |-> "",
           val |-> UploadResult(app_id, _extract_build_id(output_lines),
                                branch)]

(***************************************************************************)
(* One iteration of the loop of handle_steam_upload (worker.py 159-180).   *)
(***************************************************************************)
SteamChannelUpload(channel, username, writeOk, return_code, output) ==
  IF channel.appId = "" \/ channel.depots = <<>>
    THEN Raise("Steam channel '" \o channel.label \o
               "' must include 'appId' and 'depots'")
  ELSE IF ~build_vdf(channel.appId, writeOk).ok
    THEN build_vdf(channel.appId, writeOk)
  ELSE upload_build(username, channel.appId, channel.branch, return_code, output)

(***************************************************************************)
(* True when the iteration reaches SteamUploader.upload_build, and when it *)
(* spawns the subprocess.                                                  *)
(***************************************************************************)
SteamDriverCalled(channel, writeOk) ==
  channel.appId # "" /\ channel.depots # <<>> /\ writeOk

\* Fault variant: the account name is looked at after the subprocess ran.
SteamSpawns_unchecked(channel, username, writeOk) ==
  SteamDriverCalled(channel, writeOk)

SteamSpawns(channel, username, writeOk) ==
  SteamDriverCalled(channel, writeOk) /\ username # ""

(***************************************************************************)
(* What upload_build read and logged when it ran the subprocess.           *)
(***************************************************************************)
Streamed(channel, username, writeOk, output) ==
  IF SteamSpawns(channel, username, writeOk)
    THEN [out |-> output,
          log |-> StreamOutput(output).events,
          acc |-> StreamOutput(output).output_lines]
    ELSE [out |-> <<>>, log |-> <<>>, acc |-> <<>>]

(***************************************************************************)
(* handle_job, content-delivery phase (worker.py 217-233).                 *)
(***************************************************************************)
\* Fault variant: the content-delivery phase is entered again after its loop.
AfterCdnPhase_again == "cdn"

AfterCdnPhase == "steam"

CdnResult(channel, result) ==
  [channel |-> channel.label, url |-> result.val, success |-> TRUE]

\* Fault variant: the entry replaces the collection instead of extending it.
AppendCdnResult_overwrite(j, entry) ==
  DictSet(j, "upload_results",
          [DictGet(j, "upload_results", [cdn |-> <<>>, steam |-> <<>>])
             EXCEPT !.cdn = <<entry>>])

AppendCdnResult(j, entry) ==
  DictSet(j, "upload_results",
          [DictGet(j, "upload_results", [cdn |-> <<>>, steam |-> <<>>])
             EXCEPT !.cdn = Append(@, entry)])

\* Fault variant: the loop does not advance and the channel is invoked again.
NextChannel_retry(i) == i

NextChannel(i) == i + 1

CdnPhase ==
  /\ pc = "cdn"
  /\ IF ~PhaseEnabled(job, "cdn_channels")
       THEN /\ pc' = AfterCdnPhase
            /\ UNCHANGED <<queued_jobs, running_jobs, complete_jobs,
                           failed_jobs, job, current_job, file_path, idx,
                           results, created, calls, notified>>
       ELSE \E zipOk \in BOOLEAN :
              LET r == get_cdn_file_path(job, created, zipOk)
              IN /\ Record(job, Call("resolve_cdn", 0, r.ok, FALSE, FALSE, 0,
                                     r.err))
                 /\ IF r.ok
                      THEN /\ file_path' = r.val
                           /\ created' =
                                IF r.val = DictGet(job, "absoluteIngestPath", "")
                                  THEN created
                                  ELSE created \cup
                                         {[path |-> r.val, kind |-> "file"]}
                           /\ idx' = 1
                           /\ pc' = "cdn_loop"
                           /\ UNCHANGED <<queued_jobs, running_jobs,
                                          complete_jobs, failed_jobs, job,
                                          current_job, results, notified>>
                      ELSE /\ JobFailed(job, r.err)
                           /\ UNCHANGED created
  /\ UNCHANGED <<steam_username, fleet, clock, enqueued, popped>>

CdnUpload ==
  /\ pc = "cdn_loop"
  /\ \E transferOk \in BOOLEAN :
       LET channels == DictGet(job, "cdn_channels", <<>>)
           channel == ChannelAt(channels, idx)
           r == CDNUpload(channel, file_path, created, transferOk)
       IN /\ Record(job,
                    [Call("cdn", Position(channels, channel), r.ok, TRUE,
                          CDNTransfers(channel, file_path, created), 0, r.err)
                       EXCEPT !.log = AclLog(channel, file_path, created,
                                             transferOk)])
          /\ IF r.ok
               THEN /\ job' = AppendCdnResult(job, CdnResult(channel, r))
                    /\ IF idx < Len(DictGet(job, "cdn_channels", <<>>))
                         THEN idx' = NextChannel(idx) /\ pc' = "cdn_loop"
                         ELSE idx' = 0 /\ pc' = AfterCdnPhase
                    /\ UNCHANGED <<queued_jobs, running_jobs, complete_jobs,
                                   failed_jobs, current_job, file_path,
                                   results, notified>>
               ELSE JobFailed(job, r.err)
  /\ UNCHANGED <<steam_username, fleet, clock, created, enqueued, popped>>

(***************************************************************************)
(* handle_job, release-channel phase (worker.py 235-250) with              *)
(* handle_steam_upload (worker.py 136-187).                                *)
(***************************************************************************)
SteamEntry(channel, result) ==
  [channel |-> channel.label, app_id |-> channel.appId, result |-> result.val]

SteamTracking(entries) ==
  [i \in 1..Len(entries) |->
     [channel |-> entries[i].channel, app_id |-> entries[i].app_id,
      success |-> TRUE]]

WithSteamResults(j, entries) ==
  LET stored == DictSet(j, "steam_results", entries)
  IN DictSet(stored, "upload_results",
             [DictGet(stored, "upload_results", [cdn |-> <<>>, steam |-> <<>>])
                EXCEPT !.steam = @ \o SteamTracking(entries)])

SteamPhase ==
  /\ pc = "steam"
  /\ IF ~PhaseEnabled(job, "steam_channels")
       THEN /\ pc' = "complete"
            /\ UNCHANGED <<queued_jobs, running_jobs, complete_jobs,
                           failed_jobs, job, current_job, file_path, idx,
                           results, created, calls, notified>>
       ELSE \E unzipOk \in BOOLEAN :
              LET r == get_steam_build_path(job, created, unzipOk)
                  p == DictGet(job, "absoluteIngestPath", "")
              IN /\ Record(job, Call("resolve_steam", 0, r.ok, FALSE, FALSE,
                                     0, r.err))
                 /\ IF r.ok
                      THEN /\ file_path' = r.val
                           /\ created' =
                                IF r.val = ExtractDir(p, DictGet(job, "id", ""))
                                  THEN created \cup
                                         {[path |-> r.val, kind |-> "dir"]}
                                  ELSE created
                           /\ idx' = 1
                           /\ results' = <<>>
                           /\ pc' = "steam_loop"
                           /\ UNCHANGED <<queued_jobs, running_jobs,
                                          complete_jobs, failed_jobs, job,
                                          current_job, notified>>
                      ELSE /\ JobFailed(job, r.err)
                           /\ UNCHANGED created
  /\ UNCHANGED <<steam_username, fleet, clock, enqueued, popped>>

SteamUpload ==
  /\ pc = "steam_loop"
  /\ \E writeOk \in BOOLEAN, run \in UploaderRuns :
       LET return_code == run.return_code
           output == run.output
           channels == DictGet(job, "steam_channels", <<>>)
           channel == ChannelAt(channels, idx)
           r == SteamChannelUpload(channel, steam_username, writeOk,
                                   return_code, output)
           st == Streamed(channel, steam_username, writeOk, output)
       IN /\ Record(job,
                    [Call("steam", Position(channels, channel), r.ok,
                          SteamDriverCalled(channel, writeOk),
                          SteamSpawns(channel, steam_username, writeOk),
                          IF SteamSpawns(channel, steam_username, writeOk)
                            THEN return_code ELSE 0,
                          r.err)
                       EXCEPT !.out = st.out, !.log = st.log, !.acc = st.acc,
                              !.vdf = IF SteamDriverCalled(channel, writeOk)
                                        THEN VdfContent(
                                               channel.appId, channel.depots,
                                               file_path,
                                               DictGet(job, "description", ""),
                                               channel.branch)
                                        ELSE <<>>])
          /\ created' =
               IF SteamDriverCalled(channel, writeOk)
                 THEN created \cup
                        {[path |-> VdfPath(channel.appId), kind |-> "file"]}
                 ELSE created
          /\ IF r.ok
               THEN /\ IF idx < Len(DictGet(job, "steam_channels", <<>>))
                         THEN /\ results' = Append(results, SteamEntry(channel, r))
                              /\ idx' = NextChannel(idx)
                              /\ pc' = "steam_loop"
                              /\ job' = job
                         ELSE /\ results' = <<>>
                              /\ idx' = 0
                              /\ pc' = "complete"
                              /\ job' = WithSteamResults(
                                          job, Append(results, SteamEntry(channel, r)))
                    /\ UNCHANGED <<queued_jobs, running_jobs, complete_jobs,
                                   failed_jobs, current_job, file_path,
                                   notified>>
               ELSE JobFailed(job, r.err)
  /\ UNCHANGED <<steam_username, fleet, clock, enqueued, popped>>

(***************************************************************************)
(* The system: the producer and the single worker.                         *)
(***************************************************************************)
Next ==
  \/ Enqueue
  \/ EnqueueBad
  \/ DequeueInvalid
  \/ DequeueCrash
  \/ DequeueJob
  \/ CdnPhase
  \/ CdnUpload
  \/ SteamPhase
  \/ SteamUpload
  \/ Complete

Spec == Init /\ [][Next]_vars

(***************************************************************************)
(* The worker is a sequential process: once a job is in hand, each call of *)
(* the resolver, of a driver and of the final bookkeeping returns and the  *)
(* next statement runs.  Nothing is assumed of the producer, nor of the    *)
(* blocking dequeue.                                                       *)
(***************************************************************************)
HandleJobStep == CdnPhase \/ CdnUpload \/ SteamPhase \/ SteamUpload \/ Complete

LiveSpec == Spec /\ WF_vars(HandleJobStep)

(***************************************************************************)
(* Two worker processes (worker.py run twice) on the same Valkey lists and *)
(* the same filesystem.  Every Valkey command is atomic; a process is      *)
(* interleaved with the other one between its commands, between writing a  *)
(* descriptor file and spawning the uploader that reads it, and between    *)
(* the phases of handle_job.  The jobs are on the work queue from the      *)
(* start, each with well-formed release channels; object storage and       *)
(* archiving work; the uploader prints a build identifier and may fail.    *)
(***************************************************************************)
FleetTemplates ==
  {t \in JobTemplates :
     /\ t.steam_channels # <<>>
     /\ t.absoluteIngestPath \in {"/in/build", "/in/build.zip", "/in/game.bin"}
     /\ \A i \in 1..Len(t.cdn_channels) : MissingCdnField(t.cdn_channels[i]) = ""
     /\ \A i \in 1..Len(t.steam_channels) : t.steam_channels[i].appId # ""}

FleetRuns ==
  {run \in UploaderRuns :
     _extract_build_id(StreamOutput(run.output).output_lines) # ""}

RECURSIVE FleetQueues(_)
FleetQueues(n) ==
  IF n = 0
    THEN {<<>>}
    ELSE {Append(q, JobPayload(n, t)) : q \in FleetQueues(n - 1),
                                        t \in FleetTemplates}

FleetInit ==
  /\ queued_jobs \in FleetQueues(MaxPayloads)
  /\ running_jobs = <<>>
  /\ complete_jobs = <<>>
  /\ failed_jobs = <<>>
  /\ pc = "blpop"
  /\ job = <<>>
  /\ current_job = <<>>
  /\ file_path = ""
  /\ idx = 0
  /\ results = <<>>
  /\ steam_username = "builder"
  /\ clock = 0
  /\ created = {}
  /\ enqueued = [n \in JobNumbers |-> JobId(n)]
  /\ popped = <<>>
  /\ calls = [j \in JobIds |-> <<>>]
  /\ notified = <<>>
  /\ workers = [w \in Workers |-> Idle]
  /\ vdf_files = <<>>
  /\ spawned = {}
  /\ taken = {}

single == <<pc, job, current_job, file_path, idx, results, popped, calls,
            enqueued, steam_username>>

\* open(vdf_path, 'w') ... f.write(vdf_content): the file holds the last text.
WriteFile(files, path, content) ==
  SelectSeq(files, LAMBDA f : f.path # path) \o
  <<[path |-> path, content |-> content]>>

ReadFile(files, path) ==
  files[CHOOSE i \in 1..Len(files) : files[i].path = path]

\* The except branch of the main loop, for worker w (worker.py 283-287).
W_JobFailed(w, e) ==
  /\ abbort_job(workers[w].job, workers[w].current_job, AbortMessage(e))
  /\ workers' = [workers EXCEPT ![w] = Idle]

\* kv_store.blpop(QUEUED_JOBS) and json.loads (worker.py 269-273).
W_BLPop(w) ==
  /\ workers[w].pc = "blpop"
  /\ queued_jobs # <<>>
  /\ JsonKind(BLPop(queued_jobs).value) = "object"
  /\ DictHas(Loads(BLPop(queued_jobs).value), "id")
  /\ queued_jobs' = BLPop(queued_jobs).rest
  /\ workers' = [workers EXCEPT ![w] =
                   [Idle EXCEPT !.pc = "start",
                                !.job = Loads(BLPop(queued_jobs).value)]]
  /\ taken' = taken \cup
                {[id |-> DictGet(Loads(BLPop(queued_jobs).value), "id", ""),
                  worker |-> w]}
  /\ UNCHANGED <<running_jobs, complete_jobs, failed_jobs, clock, created,
                 notified, vdf_files, spawned, single>>

\* The start of handle_job (worker.py 204-215).
W_Start(w) ==
  /\ workers[w].pc = "start"
  /\ LET started == StartedJob(workers[w].job, clock + 1)
     IN /\ running_jobs' = RunningAfterStart(running_jobs, Dumps(started))
        /\ workers' = [workers EXCEPT ![w] =
                         [@ EXCEPT !.pc = "cdn",
                                   !.current_job = Dumps(started),
                                   !.job = DictSet(started, "upload_results",
                                                   [cdn |-> <<>>, steam |-> <<>>])]]
  /\ clock' = clock + 1
  /\ UNCHANGED <<queued_jobs, complete_jobs, failed_jobs, created, notified,
                 vdf_files, spawned, taken, single>>

\* for channel in cdn_channels (worker.py 222-230), object storage working.
RECURSIVE CdnLoop(_, _, _, _)
CdnLoop(j, i, path, made) ==
  LET channels == DictGet(j, "cdn_channels", <<>>)
  IN IF i > Len(channels)
       THEN [ok |-> TRUE, job |-> j, err |-> ""]
       ELSE LET channel == ChannelAt(channels, i)
                r == CDNUpload(channel, path, made, TRUE)
            IN IF r.ok
                 THEN CdnLoop(AppendCdnResult(j, CdnResult(channel, r)),
                              NextChannel(i), path, made)
                 ELSE [ok |-> FALSE, job |-> j, err |-> r.err]

\* The content-delivery phase of handle_job (worker.py 217-233).
W_CdnPhase(w) ==
  /\ workers[w].pc = "cdn"
  /\ IF ~PhaseEnabled(workers[w].job, "cdn_channels")
       THEN /\ workers' = [workers EXCEPT ![w].pc = AfterCdnPhase]
            /\ UNCHANGED <<running_jobs, failed_jobs, notified, created>>
       ELSE LET r == get_cdn_file_path(workers[w].job, created, TRUE)
                made == IF r.ok /\ r.val # DictGet(workers[w].job,
                                                   "absoluteIngestPath", "")
                          THEN created \cup {[path |-> r.val, kind |-> "file"]}
                          ELSE created
                done == CdnLoop(workers[w].job, 1, r.val, made)
            IN /\ created' = made
               /\ IF r.ok /\ done.ok
                    THEN /\ workers' = [workers EXCEPT
                                          ![w].pc = AfterCdnPhase,
                                          ![w].job = done.job]
                         /\ UNCHANGED <<running_jobs, failed_jobs, notified>>
                    ELSE /\ running_jobs' =
                              LRem(running_jobs,
                                   AbortRemovalKey(done.job, workers[w].current_job))
                         /\ failed_jobs' =
                              RPush(failed_jobs,
                                    Dumps(FailedRecord(
                                            done.job,
                                            AbortMessage(IF r.ok THEN done.err
                                                                 ELSE r.err))))
                         /\ notified' =
                              Notify(notified,
                                     FailedRecord(
                                       done.job,
                                       AbortMessage(IF r.ok THEN done.err
                                                            ELSE r.err)),
                                     "failed",
                                     AbortMessage(IF r.ok THEN done.err
                                                          ELSE r.err),
                                     failed_jobs')
                         /\ workers' = [workers EXCEPT ![w] = Idle]
  /\ UNCHANGED <<queued_jobs, complete_jobs, clock, vdf_files, spawned, taken,
                 single>>

\* The release phase up to the loop (worker.py 235-241, 150-157).
W_SteamPhase(w) ==
  /\ workers[w].pc = "steam"
  /\ IF ~PhaseEnabled(workers[w].job, "steam_channels")
       THEN /\ workers' = [workers EXCEPT ![w].pc = "complete"]
            /\ UNCHANGED <<running_jobs, failed_jobs, notified, created>>
       ELSE LET r == get_steam_build_path(workers[w].job, created, TRUE)
                p == DictGet(workers[w].job, "absoluteIngestPath", "")
            IN IF r.ok
                 THEN /\ workers' = [workers EXCEPT ![w].pc = "vdf",
                                                    ![w].file_path = r.val,
                                                    ![w].idx = 1,
                                                    ![w].results = <<>>]
                      /\ created' =
                           IF r.val = ExtractDir(p, DictGet(workers[w].job,
                                                            "id", ""))
                             THEN created \cup {[path |-> r.val, kind |-> "dir"]}
                             ELSE created
                      /\ UNCHANGED <<running_jobs, failed_jobs, notified>>
                 ELSE /\ W_JobFailed(w, r.err)
                      /\ UNCHANGED created
  /\ UNCHANGED <<queued_jobs, complete_jobs, clock, vdf_files, spawned, taken,
                 single>>

\* One iteration up to build_vdf's write (worker.py 159-171).
W_BuildVdf(w) ==
  /\ workers[w].pc = "vdf"
  /\ LET channels == DictGet(workers[w].job, "steam_channels", <<>>)
         channel == ChannelAt(channels, workers[w].idx)
     IN IF channel.appId = "" \/ channel.depots = <<>>
          THEN /\ W_JobFailed(w, "Steam channel '" \o channel.label \o
                                 "' must include 'appId' and 'depots'")
               /\ UNCHANGED <<vdf_files, created>>
          ELSE /\ vdf_files' =
                    WriteFile(vdf_files, VdfPath(channel.appId),
                              VdfContent(channel.appId, channel.depots,
                                         workers[w].file_path,
                                         DictGet(workers[w].job, "description", ""),
                                         channel.branch))
               /\ created' = created \cup
                               {[path |-> VdfPath(channel.appId), kind |-> "file"]}
               /\ workers' = [workers EXCEPT ![w].pc = "upload"]
               /\ UNCHANGED <<running_jobs, failed_jobs, notified>>
  /\ UNCHANGED <<queued_jobs, complete_jobs, clock, spawned, taken, single>>

\* upload_build and the end of the iteration (worker.py 173-182).
W_Upload(w) ==
  /\ workers[w].pc = "upload"
  /\ \E run \in FleetRuns :
       LET j == workers[w].job
           channels == DictGet(j, "steam_channels", <<>>)
           channel == ChannelAt(channels, workers[w].idx)
           r == upload_build(steam_username, channel.appId, channel.branch,
                             run.return_code, run.output)
           entries == Append(workers[w].results, SteamEntry(channel, r))
       IN /\ spawned' =
               IF steam_username # ""
                 THEN spawned \cup
                        {[worker |-> w, id |-> DictGet(j, "id", ""),
                          channel |-> Position(channels, channel),
                          read |-> ReadFile(vdf_files,
                                            VdfPath(channel.appId)).content,
                          rendered |->
                            VdfContent(channel.appId, channel.depots,
                                       workers[w].file_path,
                                       DictGet(j, "description", ""),
                                       channel.branch)]}
                 ELSE spawned
          /\ IF r.ok
               THEN /\ IF workers[w].idx < Len(channels)
                         THEN workers' =
                                [workers EXCEPT
                                   ![w].pc = "vdf",
                                   ![w].idx = NextChannel(workers[w].idx),
                                   ![w].results = entries]
                         ELSE workers' =
                                [workers EXCEPT
                                   ![w].pc = "complete",
                                   ![w].idx = 0,
                                   ![w].results = <<>>,
                                   ![w].job = WithSteamResults(j, entries)]
                    /\ UNCHANGED <<running_jobs, failed_jobs, notified>>
               ELSE W_JobFailed(w, r.err)
  /\ UNCHANGED <<queued_jobs, complete_jobs, clock, created, vdf_files, taken,
                 single>>

\* The end of handle_job (worker.py 252-260).
W_Complete(w) ==
  /\ workers[w].pc = "complete"
  /\ LET done == CompletedJob(workers[w].job, clock + 1)
     IN /\ running_jobs' =
             LRem(running_jobs,
                  CompleteRemovalKey(workers[w].job, workers[w].current_job))
        /\ complete_jobs' = RPush(complete_jobs, Dumps(done))
        /\ notified' = Notify(notified, done, "completed", "", complete_jobs')
  /\ clock' = clock + 1
  /\ workers' = [workers EXCEPT ![w] = Idle]
  /\ UNCHANGED <<queued_jobs, failed_jobs, created, vdf_files, spawned, taken,
                 single>>

FleetNext ==
  \E w \in Workers :
    \/ W_BLPop(w)
    \/ W_Start(w)
    \/ W_CdnPhase(w)
    \/ W_SteamPhase(w)
    \/ W_BuildVdf(w)
    \/ W_Upload(w)
    \/ W_Complete(w)

FleetSpec == FleetInit /\ [][FleetNext]_vars

(***************************************************************************)
(* Reading the lists: the entries of a job, by the id in the JSON text.    *)
(***************************************************************************)
IsJobText(raw) == JsonKind(raw) = "object" /\ DictHas(Loads(raw), "id")

Entries(list, j) ==
  SelectSeq(list, LAMBDA raw : IsJobText(raw) /\ DictGet(Loads(raw), "id", "") = j)

Count(list, j) == Len(Entries(list, j))

InList(list, j) == Count(list, j) > 0

EnqueuedIds == {enqueued[i] : i \in 1..Len(enqueued)} \cap JobIds

ListsHolding(j) ==
  {name \in {"queued", "running", "complete", "failed"} :
     \/ name = "queued" /\ InList(queued_jobs, j)
     \/ name = "running" /\ InList(running_jobs, j)
     \/ name = "complete" /\ InList(complete_jobs, j)
     \/ name = "failed" /\ InList(failed_jobs, j)}

Terminal(j) == InList(complete_jobs, j) \/ InList(failed_jobs, j)

HasFailedCall(j) == \E i \in 1..Len(calls[j]) : ~calls[j][i].ok

(***************************************************************************)
(* C1: every enqueued job is a member of exactly one of the four status    *)
(* lists (queued, running, complete, failed), never of none and never of   *)
(* two or more.                                                            *)
(***************************************************************************)
C1_ExactlyOneList ==
  \A j \in EnqueuedIds : Cardinality(ListsHolding(j)) = 1

(***************************************************************************)
(* C2: once a job has been aborted, the running list holds no entry of it  *)
(* and the failed list holds it exactly once, with status "failed" and an  *)
(* error text.                                                             *)
(***************************************************************************)
C2_AbortLeavesRunning ==
  \A j \in JobIds :
    HasFailedCall(j) =>
      /\ Count(running_jobs, j) = 0
      /\ Count(failed_jobs, j) = 1
      /\ DictGet(Loads(Entries(failed_jobs, j)[1]), "status", "") = "failed"
      /\ DictGet(Loads(Entries(failed_jobs, j)[1]), "error", "") # ""

(***************************************************************************)
(* C3: whenever the worker is blocked on the dequeue, the running list is  *)
(* empty.                                                                  *)
(***************************************************************************)
C3_IdleRunningEmpty == pc = "blpop" => running_jobs = <<>>

(***************************************************************************)
(* C4: a job's record enters the running list only from the work queue,    *)
(* enters a terminal list only from the running list, and once it is in a  *)
(* terminal list its terminal records never change, it is never put back   *)
(* on the work queue and no new record of it enters the running list.      *)
(***************************************************************************)
C4_StatusEdges ==
  [][\A j \in JobIds :
       /\ Count(queued_jobs', j) > Count(queued_jobs, j) =>
            ListsHolding(j) = {}
       /\ Count(running_jobs', j) > Count(running_jobs, j) =>
            /\ ListsHolding(j) = {"queued"}
            /\ ~InList(queued_jobs', j)
            /\ DictGet(Loads(Entries(running_jobs', j)[1]), "status", "") = "running"
       /\ (Terminal(j)' /\ ~Terminal(j)) =>
            /\ ListsHolding(j) = {"running"}
            /\ Count(complete_jobs', j) + Count(failed_jobs', j) = 1
       /\ Terminal(j) =>
            /\ Entries(complete_jobs', j) = Entries(complete_jobs, j)
            /\ Entries(failed_jobs', j) = Entries(failed_jobs, j)
            /\ ~InList(queued_jobs', j)
            /\ Count(running_jobs', j) <= Count(running_jobs, j)]_vars

C4_Witness ==
  /\ InList(failed_jobs, JobId(1))
  /\ InList(complete_jobs, JobId(2))
  /\ pc = "blpop"
  /\ queued_jobs = <<>>

(***************************************************************************)
(* C5: a job that reached the complete list (every configured channel      *)
(* succeeded) is not in the running list and is in the complete list       *)
(* exactly once, with status "complete", a startedAt stamp and a           *)
(* completedAt stamp.                                                      *)
(***************************************************************************)
C5_CompleteRecord ==
  \A j \in JobIds :
    InList(complete_jobs, j) =>
      /\ \A i \in 1..Len(calls[j]) : calls[j][i].ok
      /\ Count(running_jobs, j) = 0
      /\ Count(complete_jobs, j) = 1
      /\ LET rec == Loads(Entries(complete_jobs, j)[1])
         IN /\ DictGet(rec, "status", "") = "complete"
            /\ DictGet(rec, "startedAt", "") # ""
            /\ DictGet(rec, "completedAt", "") # ""

C5_Witness ==
  \E j \in JobIds :
    /\ InList(complete_jobs, j)
    /\ Len(calls[j]) = 6
    /\ pc = "blpop"

(***************************************************************************)
(* C6: when the resolver or a driver is invoked for a job, the job is      *)
(* already in the running list, marked "running" and stamped with          *)
(* startedAt.                                                              *)
(***************************************************************************)
MarkedRunning(j) ==
  \E i \in 1..Len(running_jobs) :
    LET rec == Loads(running_jobs[i])
    IN /\ DictGet(rec, "id", "") = j
       /\ DictGet(rec, "status", "") = "running"
       /\ DictGet(rec, "startedAt", "") # ""

C6_RunningBeforeProcessing ==
  [][\A j \in JobIds :
       Len(calls'[j]) > Len(calls[j]) =>
         /\ MarkedRunning(j)
         /\ DictGet(job, "status", "") = "running"
         /\ DictGet(job, "startedAt", "") # ""]_vars

C6_Witness ==
  \E j \in JobIds :
    /\ pc = "cdn_loop"
    /\ Len(calls[j]) = 1
    /\ MarkedRunning(j)

(***************************************************************************)
(* C7: a job for which the resolver or a channel driver failed is in the   *)
(* failed list and not in the complete list, and no job is in both the     *)
(* complete list and the failed list.                                      *)
(***************************************************************************)
C7_FailedNotComplete ==
  \A j \in JobIds :
    /\ HasFailedCall(j) => InList(failed_jobs, j) /\ ~InList(complete_jobs, j)
    /\ ~(InList(complete_jobs, j) /\ InList(failed_jobs, j))

C7_Witness ==
  \E j \in JobIds :
    /\ \E i \in 1..Len(calls[j]) :
         calls[j][i].kind = "steam" /\ calls[j][i].io /\ calls[j][i].rc = 1
    /\ InList(failed_jobs, j)

(***************************************************************************)
(* C8: when the dequeued payload is not valid JSON it is dropped: the      *)
(* running, complete and failed lists are unchanged, the payload is not    *)
(* put back on the queue, no notification is sent, and the worker is back  *)
(* at the blocking dequeue.                                                *)
(***************************************************************************)
C8_InvalidDropped ==
  [][(Len(popped') > Len(popped) /\ JsonKind(Head(queued_jobs)) = "invalid") =>
       /\ queued_jobs' = Tail(queued_jobs)
       /\ UNCHANGED <<running_jobs, complete_jobs, failed_jobs, notified>>
       /\ pc' = "blpop"]_vars

C8_Witness ==
  /\ Len(popped) = 2
  /\ popped[1] = "invalid"
  /\ popped[2] = JobId(2)
  /\ InList(running_jobs, JobId(2))

(***************************************************************************)
(* C9: the first failure aborts the job: nothing is invoked after the      *)
(* failing call (no later content-delivery channel, no release channel)    *)
(* and the job is never in the complete list.                              *)
(***************************************************************************)
C9_FirstFailureAborts ==
  \A j \in JobIds :
    \A i \in 1..Len(calls[j]) :
      ~calls[j][i].ok =>
        /\ i = Len(calls[j])
        /\ ~InList(complete_jobs, j)
        /\ ~(pc # "blpop" /\ DictGet(job, "id", "") = j)

C9_Witness ==
  \E j \in JobIds :
    /\ Len(calls[j]) = 2
    /\ calls[j][2].kind = "cdn"
    /\ calls[j][2].idx = 1
    /\ ~calls[j][2].ok
    /\ calls[j][2].io
    /\ InList(failed_jobs, j)
    /\ Len(DictGet(Loads(Entries(failed_jobs, j)[1]), "cdn_channels", <<>>)) = 2
    /\ Len(DictGet(Loads(Entries(failed_jobs, j)[1]), "steam_channels", <<>>)) = 2

(***************************************************************************)
(* C10: within one job the drivers are invoked in this order: the          *)
(* content-delivery channels in configured list order, then the release    *)
(* channels in configured list order.                                      *)
(***************************************************************************)
Rank(kind) ==
  CASE kind = "resolve_cdn" -> 0
    [] kind = "cdn" -> 1
    [] kind = "resolve_steam" -> 2
    [] kind = "steam" -> 3

C10_ChannelOrder ==
  \A j \in JobIds :
    \A a, b \in 1..Len(calls[j]) :
      a < b =>
        /\ Rank(calls[j][a].kind) <= Rank(calls[j][b].kind)
        /\ (calls[j][a].kind = calls[j][b].kind /\ b = a + 1) =>
             calls[j][b].idx = calls[j][a].idx + 1
        /\ (calls[j][a].kind # calls[j][b].kind /\ b = a + 1) =>
             calls[j][b].idx \in {0, 1}

C10_Witness ==
  \E j \in JobIds :
    /\ Len(calls[j]) = 6
    /\ calls[j][3].kind = "cdn" /\ calls[j][3].idx = 2
    /\ calls[j][6].kind = "steam" /\ calls[j][6].idx = 2

(***************************************************************************)
(* Reading a job's configuration back: from the job in hand, or from its   *)
(* record in the lists.                                                    *)
(***************************************************************************)
ConfigOf(j) ==
  IF job # <<>> /\ DictGet(job, "id", "") = j
    THEN job
    ELSE LET all == Entries(failed_jobs, j) \o Entries(complete_jobs, j) \o
                    Entries(running_jobs, j) \o Entries(queued_jobs, j)
         IN IF all = <<>> THEN <<>> ELSE Loads(all[1])

CdnChannelsOf(j) == DictGet(ConfigOf(j), "cdn_channels", <<>>)

SteamChannelsOf(j) == DictGet(ConfigOf(j), "steam_channels", <<>>)

CdnFieldMissing(config) ==
  \E f \in {"region", "accessKeyId", "secretAccessKey", "bucketName"} :
    config[f] = ""

SteamFieldMissing(config) == config.appId = "" \/ config.depots = <<>>

HasChannelMissingField(j) ==
  \/ \E i \in 1..Len(CdnChannelsOf(j)) : CdnFieldMissing(CdnChannelsOf(j)[i])
  \/ \E i \in 1..Len(SteamChannelsOf(j)) :
       SteamFieldMissing(SteamChannelsOf(j)[i])

CallOnMissingField(j, c) ==
  \/ c.kind = "cdn" /\ CdnFieldMissing(CdnChannelsOf(j)[c.idx])
  \/ c.kind = "steam" /\ SteamFieldMissing(SteamChannelsOf(j)[c.idx])

(***************************************************************************)
(* C11 as stated: a job with some configured channel (at any list          *)
(* position) missing a required field fails with no object-storage call    *)
(* and no subprocess spawn made for any channel of the job.                *)
(***************************************************************************)
C11_MissingFieldNoIO ==
  \A j \in JobIds :
    HasChannelMissingField(j) =>
      /\ \A i \in 1..Len(calls[j]) : ~calls[j][i].io
      /\ ~InList(complete_jobs, j)

(***************************************************************************)
(* C11 amended: when the worker reaches a configured channel that is       *)
(* missing a required field, the job fails at that channel with no         *)
(* object-storage call and no subprocess spawn made for that channel, and  *)
(* nothing is invoked after it; the channels before it in the order have   *)
(* already been uploaded.                                                  *)
(***************************************************************************)
C11_MissingFieldAtChannel ==
  \A j \in JobIds :
    \A i \in 1..Len(calls[j]) :
      CallOnMissingField(j, calls[j][i]) =>
        /\ ~calls[j][i].ok
        /\ ~calls[j][i].io
        /\ i = Len(calls[j])
        /\ InList(failed_jobs, j)
        /\ ~InList(complete_jobs, j)

C11_Witness ==
  \E j \in JobIds :
    /\ Len(calls[j]) = 3
    /\ calls[j][2].kind = "cdn" /\ calls[j][2].ok /\ calls[j][2].io
    /\ calls[j][3].kind = "cdn" /\ CallOnMissingField(j, calls[j][3])
    /\ InList(failed_jobs, j)

(***************************************************************************)
(* The result collection persisted with a job's terminal record.           *)
(***************************************************************************)
ResultsIn(raw) ==
  DictGet(Loads(raw), "upload_results", [cdn |-> <<>>, steam |-> <<>>])

Labels(entries) == [i \in 1..Len(entries) |-> entries[i].channel]

HasLabel(entries, label) == \E k \in 1..Len(entries) : entries[k].channel = label

(***************************************************************************)
(* C12: the record of a failed job in the failed list holds a per-channel  *)
(* result entry for every channel (content-delivery and release) that      *)
(* succeeded before the failing one.                                       *)
(***************************************************************************)
C12_FailedKeepsResults ==
  \A j \in JobIds :
    InList(failed_jobs, j) =>
      \A i \in 1..Len(calls[j]) :
        /\ (calls[j][i].kind = "cdn" /\ calls[j][i].ok) =>
             HasLabel(ResultsIn(Entries(failed_jobs, j)[1]).cdn,
                      CdnChannelsOf(j)[calls[j][i].idx].label)
        /\ (calls[j][i].kind = "steam" /\ calls[j][i].ok) =>
             HasLabel(ResultsIn(Entries(failed_jobs, j)[1]).steam,
                      SteamChannelsOf(j)[calls[j][i].idx].label)

Popped(j) == \E i \in 1..Len(popped) : popped[i] = j

InHand(j) == pc \notin {"blpop", "crashed"} /\ DictGet(job, "id", "") = j

(***************************************************************************)
(* C13: a job with no content-delivery channels and no release channels    *)
(* goes to the complete list, and neither the ingest resolver nor the      *)
(* content-delivery driver nor the release-channel driver is invoked for   *)
(* it.                                                                     *)
(***************************************************************************)
C13_NoChannelsCompletes ==
  \A j \in JobIds :
    (ConfigOf(j) # <<>> /\ CdnChannelsOf(j) = <<>> /\ SteamChannelsOf(j) = <<>>) =>
      /\ calls[j] = <<>>
      /\ ~InList(failed_jobs, j)
      /\ (Popped(j) /\ ~InHand(j)) =>
           /\ Count(complete_jobs, j) = 1
           /\ ResultsIn(Entries(complete_jobs, j)[1]) = [cdn |-> <<>>, steam |-> <<>>]

C13_Witness ==
  \E j \in JobIds :
    /\ InList(complete_jobs, j)
    /\ CdnChannelsOf(j) = <<>>
    /\ SteamChannelsOf(j) = <<>>
    /\ calls[j] = <<>>

NotificationsOf(j) == SelectSeq(notified, LAMBDA e : e.id = j)

(***************************************************************************)
(* C14: the notification service is invoked exactly once for every job:    *)
(* with status "completed" and no error exactly when the job was appended  *)
(* to the complete list, with status "failed" and the recorded error text  *)
(* exactly when it was appended to the failed list, and in both cases      *)
(* after the append to the terminal list.                                  *)
(***************************************************************************)
C14_NotifiedExactlyOnce ==
  /\ \A k \in 1..Len(notified) : notified[k].id \in JobIds
  /\ \A j \in JobIds :
       LET n == NotificationsOf(j)
       IN /\ Len(n) <= 1
          /\ (Popped(j) /\ ~InHand(j)) => Len(n) = 1
          /\ InList(complete_jobs, j) <=>
               (Len(n) = 1 /\ n[1].status = "completed" /\ n[1].error = "")
          /\ InList(failed_jobs, j) <=>
               (/\ Len(n) = 1
                /\ n[1].status = "failed"
                /\ n[1].error # ""
                /\ n[1].error =
                     DictGet(Loads(Entries(failed_jobs, j)[1]), "error", ""))
          /\ \A k \in 1..Len(n) : n[k].persisted

C14_Witness ==
  /\ Len(notified) = 2
  /\ notified[1].status = "failed" /\ notified[1].persisted
  /\ notified[2].status = "completed" /\ notified[2].persisted
  /\ InList(failed_jobs, notified[1].id)
  /\ InList(complete_jobs, notified[2].id)

(***************************************************************************)
(* C15: the notification call never raises into the worker.  Whatever      *)
(* happens to the webhook request, the step that notifies ends with the    *)
(* worker back at the blocking dequeue, one notification made, the job     *)
(* once in the terminal list it was appended to with the status passed,    *)
(* and the other terminal list untouched: a job appended to the complete   *)
(* list is never aborted into the failed list.                            *)
(***************************************************************************)
C15_NotificationNeverRaises ==
  [][/\ Len(notified') > Len(notified) =>
          /\ Len(notified') = Len(notified) + 1
          /\ pc' = "blpop"
          /\ LET e == notified'[Len(notified')]
             IN /\ e.status = "completed" =>
                     /\ Count(complete_jobs', e.id) = 1
                     /\ DictGet(Loads(Entries(complete_jobs', e.id)[1]),
                                "status", "") = "complete"
                     /\ failed_jobs' = failed_jobs
                /\ e.status = "failed" =>
                     /\ Count(failed_jobs', e.id) = 1
                     /\ DictGet(Loads(Entries(failed_jobs', e.id)[1]),
                                "status", "") = "failed"
                     /\ complete_jobs' = complete_jobs
     /\ \A j \in JobIds :
          InList(complete_jobs', j) => ~InList(failed_jobs', j)]_vars

C15_Witness ==
  /\ Len(notified) = 1
  /\ notified[1].status = "completed"
  /\ pc = "blpop"
  /\ InList(complete_jobs, notified[1].id)
  /\ ~InList(failed_jobs, notified[1].id)
  /\ Len(popped) = 1

(***************************************************************************)
(* C16: provided every resolver call, object-storage call and uploader     *)
(* subprocess returns, every job that has been dequeued eventually is in   *)
(* the complete list or in the failed list.  A job once dequeued stays     *)
(* dequeued and a terminal record is never removed (C4), so this is the    *)
(* same as: again and again, every job dequeued so far is in the complete  *)
(* list or in the failed list.                                             *)
(***************************************************************************)
AllDequeuedTerminal == \A j \in JobIds : Popped(j) => Terminal(j)

C16_EventuallyTerminal == []<>AllDequeuedTerminal

C16_Witness ==
  \E j \in JobIds :
    /\ Popped(j)
    /\ Terminal(j)
    /\ Len(calls[j]) >= 4
    /\ queued_jobs # <<>>

JobsOf(s) == SelectSeq(s, LAMBDA x : x \in JobIds)

IsPrefix(a, b) == Len(a) <= Len(b) /\ \A i \in 1..Len(a) : a[i] = b[i]

IdsIn(list) ==
  [i \in 1..Len(list) |->
     IF IsJobText(list[i]) THEN DictGet(Loads(list[i]), "id", "") ELSE ""]

EnqueuePos(j) == CHOOSE i \in 1..Len(enqueued) : enqueued[i] = j

InEnqueueOrder(ids) ==
  \A a, b \in 1..Len(ids) : a < b => EnqueuePos(ids[a]) < EnqueuePos(ids[b])

(***************************************************************************)
(* C17: payloads are dequeued in the order they were enqueued; a payload   *)
(* is dequeued only when every job dequeued before it is in the complete   *)
(* list or the failed list, so at most one job is in hand; and the         *)
(* terminal appends are in the enqueue order of the jobs.                  *)
(***************************************************************************)
C17_FifoOneAtATime ==
  /\ Len(popped) <= Len(enqueued)
  /\ \A i \in 1..Len(popped) :
       IF enqueued[i] \in JobIds
         THEN popped[i] = enqueued[i]
         ELSE popped[i] \notin JobIds
  /\ \A j \in JobIds :
       (Popped(j) /\ ~Terminal(j)) => (InHand(j) /\ popped[Len(popped)] = j)
  /\ Cardinality({j \in JobIds : InHand(j)}) <= 1
  /\ InEnqueueOrder(IdsIn(complete_jobs))
  /\ InEnqueueOrder(IdsIn(failed_jobs))
  /\ IsPrefix([k \in 1..Len(notified) |-> notified[k].id], JobsOf(enqueued))

C17_Witness ==
  /\ popped = <<JobId(1), JobId(2)>>
  /\ Terminal(JobId(1))
  /\ InHand(JobId(2))
  /\ ~Terminal(JobId(2))

TimesPopped(j) == Len(SelectSeq(popped, LAMBDA x : x = j))

(***************************************************************************)
(* C18: nothing is retried.  Within a job the resolver runs at most once   *)
(* per destination kind and each channel's driver is invoked at most once  *)
(* (at most one object-storage transfer per content-delivery channel, at   *)
(* most one subprocess per release channel), the number of driver calls    *)
(* never exceeds the number of channels, and no job is dequeued twice: a   *)
(* failed job is not put back on the work queue.                           *)
(***************************************************************************)
C18_NothingRetried ==
  \A j \in JobIds :
    /\ \A a, b \in 1..Len(calls[j]) :
         (calls[j][a].kind = calls[j][b].kind /\ calls[j][a].idx = calls[j][b].idx)
           => a = b
    /\ Len(SelectSeq(calls[j], LAMBDA c : c.kind = "cdn")) <= Len(CdnChannelsOf(j))
    /\ Len(SelectSeq(calls[j], LAMBDA c : c.kind = "steam"))
         <= Len(SteamChannelsOf(j))
    /\ TimesPopped(j) <= 1
    /\ InList(failed_jobs, j) => ~InList(queued_jobs, j) /\ ~InHand(j)

C18_Witness ==
  \E j \in JobIds :
    /\ InList(failed_jobs, j)
    /\ pc = "blpop"
    /\ queued_jobs = <<>>
    /\ Len(calls[j]) = 5
    /\ calls[j][5].kind = "steam" /\ calls[j][5].io /\ ~calls[j][5].ok

FirstFailure(j) ==
  calls[j][CHOOSE i \in 1..Len(calls[j]) :
             /\ ~calls[j][i].ok
             /\ \A k \in 1..(i - 1) : calls[j][k].ok]

(***************************************************************************)
(* C19 as stated: the error text on the failed record is the text of the   *)
(* first error raised during the job, verbatim, with no prefix or suffix   *)
(* added, and the same text is passed to the notification.                 *)
(***************************************************************************)
C19_ErrorVerbatim ==
  \A j \in JobIds :
    InList(failed_jobs, j) =>
      /\ DictGet(Loads(Entries(failed_jobs, j)[1]), "error", "") =
           FirstFailure(j).err
      /\ \A k \in 1..Len(NotificationsOf(j)) :
           NotificationsOf(j)[k].error = FirstFailure(j).err

(***************************************************************************)
(* C19 amended: the error text on the failed record is the text of the     *)
(* first error raised during the job prefixed with                         *)
(* "Job processing failed: ", the same text is passed to the notification, *)
(* and no other call of the job failed: no later channel is attempted.     *)
(***************************************************************************)
C19_ErrorPrefixed ==
  \A j \in JobIds :
    InList(failed_jobs, j) =>
      /\ HasFailedCall(j)
      /\ FirstFailure(j).err # ""
      /\ DictGet(Loads(Entries(failed_jobs, j)[1]), "error", "") =
           "Job processing failed: " \o FirstFailure(j).err
      /\ Len(NotificationsOf(j)) = 1
      /\ NotificationsOf(j)[1].error =
           "Job processing failed: " \o FirstFailure(j).err
      /\ FirstFailure(j) = calls[j][Len(calls[j])]
      /\ Cardinality({i \in 1..Len(calls[j]) : ~calls[j][i].ok}) = 1

C19_Witness ==
  \E j \in JobIds :
    /\ InList(failed_jobs, j)
    /\ DictGet(Loads(Entries(failed_jobs, j)[1]), "error", "") =
         "Job processing failed: SteamPipe upload failed with code 1"
    /\ Len(NotificationsOf(j)) = 1

ChannelLabels(channels) == [i \in 1..Len(channels) |-> channels[i].label]

EveryChannelSucceeded(j) ==
  /\ \A i \in 1..Len(CdnChannelsOf(j)) :
       \E k \in 1..Len(calls[j]) :
         calls[j][k].kind = "cdn" /\ calls[j][k].idx = i /\ calls[j][k].ok
  /\ \A i \in 1..Len(SteamChannelsOf(j)) :
       \E k \in 1..Len(calls[j]) :
         calls[j][k].kind = "steam" /\ calls[j][k].idx = i /\ calls[j][k].ok

(***************************************************************************)
(* C20: when every channel of a job succeeded, the result collection of    *)
(* its complete record holds exactly one entry per content-delivery        *)
(* channel and exactly one entry per release channel, each with success    *)
(* true and the channel's label, in the configured order of the channels.  *)
(***************************************************************************)
C20_ResultPerChannel ==
  \A j \in JobIds :
    (InList(complete_jobs, j) /\ EveryChannelSucceeded(j)) =>
      LET r == ResultsIn(Entries(complete_jobs, j)[1])
      IN /\ Labels(r.cdn) = ChannelLabels(CdnChannelsOf(j))
         /\ Labels(r.steam) = ChannelLabels(SteamChannelsOf(j))
         /\ \A i \in 1..Len(r.cdn) : r.cdn[i].success
         /\ \A i \in 1..Len(r.steam) : r.steam[i].success

C20_Witness ==
  \E j \in JobIds :
    /\ InList(complete_jobs, j)
    /\ EveryChannelSucceeded(j)
    /\ Labels(ResultsIn(Entries(complete_jobs, j)[1]).cdn) = <<"c1", "c2">>
    /\ Labels(ResultsIn(Entries(complete_jobs, j)[1]).steam) = <<"s1", "s2">>

CallsOfKind(j, kind) == Len(SelectSeq(calls[j], LAMBDA c : c.kind = kind))

IngestPathsSet(j) ==
  /\ DictGet(ConfigOf(j), "ingestPath", "") # ""
  /\ DictGet(ConfigOf(j), "absoluteIngestPath", "") # ""

CdnPhaseFailed(j) ==
  \E i \in 1..Len(calls[j]) :
    calls[j][i].kind \in {"resolve_cdn", "cdn"} /\ ~calls[j][i].ok

(***************************************************************************)
(* C21 as stated: within one job the resolver is invoked exactly once for  *)
(* content-delivery when at least one content-delivery channel is          *)
(* configured, exactly once for release-channel upload when at least one   *)
(* release channel is configured, and not at all for a kind with no        *)
(* channels.                                                               *)
(***************************************************************************)
C21_ResolverOncePerKind ==
  \A j \in JobIds :
    (Popped(j) /\ ~InHand(j)) =>
      /\ CallsOfKind(j, "resolve_cdn") =
           IF CdnChannelsOf(j) # <<>> THEN 1 ELSE 0
      /\ CallsOfKind(j, "resolve_steam") =
           IF SteamChannelsOf(j) # <<>> THEN 1 ELSE 0

(***************************************************************************)
(* C21 amended: within one job the resolver is invoked at most once per    *)
(* destination kind (never once per channel) and not at all for a kind     *)
(* with no channels; it is invoked exactly once for content-delivery when  *)
(* a content-delivery channel is configured and both ingest paths are set, *)
(* and exactly once for release-channel upload when a release channel is   *)
(* configured, both ingest paths are set and the content-delivery phase    *)
(* did not fail.                                                           *)
(***************************************************************************)
C21_ResolverOncePerPhase ==
  \A j \in JobIds :
    /\ CallsOfKind(j, "resolve_cdn") <= 1
    /\ CallsOfKind(j, "resolve_steam") <= 1
    /\ CdnChannelsOf(j) = <<>> => CallsOfKind(j, "resolve_cdn") = 0
    /\ SteamChannelsOf(j) = <<>> => CallsOfKind(j, "resolve_steam") = 0
    /\ (Popped(j) /\ ~InHand(j)) =>
         /\ CallsOfKind(j, "resolve_cdn") =
              IF CdnChannelsOf(j) # <<>> /\ IngestPathsSet(j) THEN 1 ELSE 0
         /\ CallsOfKind(j, "resolve_steam") =
              IF /\ SteamChannelsOf(j) # <<>>
                 /\ IngestPathsSet(j)
                 /\ ~CdnPhaseFailed(j)
                THEN 1 ELSE 0

C21_Witness ==
  \E j \in JobIds :
    /\ Popped(j) /\ ~InHand(j)
    /\ Len(CdnChannelsOf(j)) = 2
    /\ Len(SteamChannelsOf(j)) = 2
    /\ CallsOfKind(j, "resolve_cdn") = 1
    /\ CallsOfKind(j, "resolve_steam") = 1
    /\ CallsOfKind(j, "cdn") = 2
    /\ CallsOfKind(j, "steam") = 2

(***************************************************************************)
(* A resolution step: the step that adds a resolver call of the given kind *)
(* to the calls of job j; and the jobs used to apply the resolver to a     *)
(* path that is absent, does not exist, or is neither file nor directory.  *)
(***************************************************************************)
ResolvedNow(j, kind) ==
  /\ Len(calls'[j]) = Len(calls[j]) + 1
  /\ calls'[j][Len(calls'[j])].kind = kind

UnusablePathJobs ==
  { << <<"id", "j1">>, <<"ingestPath", "x">> >>,
    << <<"id", "j1">>, <<"ingestPath", "x">>, <<"absoluteIngestPath", "">> >>,
    << <<"id", "j1">>, <<"ingestPath", "x">>, <<"absoluteIngestPath", "/in/gone">> >>,
    << <<"id", "j1">>, <<"ingestPath", "x">>, <<"absoluteIngestPath", "/in/pipe">> >> }

(***************************************************************************)
(* C22: for content-delivery the resolver returns the path unchanged when  *)
(* it is a regular file, returns the path of an archive it has just        *)
(* created when it is a directory, and fails, creating nothing, when the   *)
(* path is absent, does not exist, or is neither file nor directory.       *)
(***************************************************************************)
C22_CdnResolver ==
  [][/\ \A j \in JobIds :
          ResolvedNow(j, "resolve_cdn") =>
            LET p == DictGet(job, "absoluteIngestPath", "")
                c == calls'[j][Len(calls'[j])]
            IN /\ PathKind(created, p) = "file" =>
                    c.ok /\ file_path' = p /\ created' = created
               /\ (PathKind(created, p) = "dir" /\ c.ok) =>
                    /\ file_path' = "/tmp/" \o j \o ".zip"
                    /\ PathKind(created, file_path') = "missing"
                    /\ PathKind(created', file_path') = "file"
                    /\ created' = created \cup
                                    {[path |-> file_path', kind |-> "file"]}
               /\ PathKind(created, p) \notin {"file", "dir"} => ~c.ok
               /\ ~c.ok => created' = created /\ InList(failed_jobs', j)
     /\ \A u \in UnusablePathJobs, zipOk \in BOOLEAN :
          /\ ~get_cdn_file_path(u, created, zipOk).ok
          /\ get_cdn_file_path(u, created, zipOk).val = ""]_vars

C22_Witness ==
  \E j \in JobIds :
    /\ pc = "cdn_loop"
    /\ DictGet(job, "id", "") = j
    /\ PathKind({}, DictGet(job, "absoluteIngestPath", "")) = "dir"
    /\ file_path = "/tmp/" \o j \o ".zip"
    /\ PathKind(created, file_path) = "file"

(***************************************************************************)
(* C23: for release-channel upload the resolver returns the path unchanged *)
(* when it is a directory, returns an extraction directory when it is a    *)
(* file whose name ends in the archive extension, returns the file's       *)
(* parent directory when it is any other file, and fails when the path is  *)
(* absent, does not exist, or is neither file nor directory.               *)
(***************************************************************************)
C23_SteamResolver ==
  [][/\ \A j \in JobIds :
          ResolvedNow(j, "resolve_steam") =>
            LET p == DictGet(job, "absoluteIngestPath", "")
                c == calls'[j][Len(calls'[j])]
            IN /\ PathKind(created, p) = "dir" =>
                    c.ok /\ file_path' = p /\ created' = created
               /\ (PathKind(created, p) = "file" /\ p = "/in/build.zip" /\ c.ok) =>
                    /\ file_path' = "/in/extract_" \o j
                    /\ PathKind(created', file_path') = "dir"
               /\ (PathKind(created, p) = "file" /\ p # "/in/build.zip") =>
                    c.ok /\ file_path' = "/in" /\ created' = created
               /\ PathKind(created, p) \notin {"file", "dir"} => ~c.ok
               /\ ~c.ok => created' = created /\ InList(failed_jobs', j)
     /\ \A u \in UnusablePathJobs, unzipOk \in BOOLEAN :
          /\ ~get_steam_build_path(u, created, unzipOk).ok
          /\ get_steam_build_path(u, created, unzipOk).val = ""]_vars

C23_Witness ==
  \E j \in JobIds :
    /\ pc = "steam_loop"
    /\ DictGet(job, "id", "") = j
    /\ DictGet(job, "absoluteIngestPath", "") = "/in/game.bin"
    /\ file_path = "/in"

(***************************************************************************)
(* C24: the directory into which an archive is extracted for               *)
(* release-channel upload is fresh: it did not exist before the resolution *)
(* that returns it.                                                        *)
(***************************************************************************)
C24_ExtractionDirFresh ==
  [][\A j \in JobIds :
       (/\ ResolvedNow(j, "resolve_steam")
        /\ calls'[j][Len(calls'[j])].ok
        /\ EndsWithZip(DictGet(job, "absoluteIngestPath", "")))
         => PathKind(created, file_path') = "missing"]_vars

(***************************************************************************)
(* C25: resolving an archive file for release-channel upload yields a      *)
(* directory, and resolving the returned directory again for               *)
(* release-channel upload returns that same directory, whether or not      *)
(* extraction would work.                                                  *)
(***************************************************************************)
C25_ReResolutionStable ==
  [][\A j \in JobIds :
       (/\ ResolvedNow(j, "resolve_steam")
        /\ calls'[j][Len(calls'[j])].ok
        /\ EndsWithZip(DictGet(job, "absoluteIngestPath", "")))
         => /\ PathKind(created, DictGet(job, "absoluteIngestPath", "")) = "file"
            /\ PathKind(created', file_path') = "dir"
            /\ \A unzipOk \in BOOLEAN :
                 LET again == get_steam_build_path(
                                DictSet(job, "absoluteIngestPath", file_path'),
                                created', unzipOk)
                 IN again.ok /\ again.val = file_path']_vars

C25_Witness ==
  \E j \in JobIds :
    /\ pc = "steam_loop"
    /\ DictGet(job, "id", "") = j
    /\ EndsWithZip(DictGet(job, "absoluteIngestPath", ""))
    /\ file_path = "/in/extract_" \o j
    /\ [path |-> file_path, kind |-> "dir"] \in created

SteamCalls(j) == SelectSeq(calls[j], LAMBDA c : c.kind = "steam")

FailedRecordOf(j) == Loads(Entries(failed_jobs, j)[1])

(***************************************************************************)
(* C26: when the configured uploader account name is empty, upload_build   *)
(* fails before any subprocess is spawned (nothing is read or logged from  *)
(* one), and the failure propagates: the job is aborted with that error.   *)
(***************************************************************************)
C26_EmptyAccountFailsFast ==
  steam_username = "" =>
    \A j \in JobIds :
      \A k \in 1..Len(SteamCalls(j)) :
        LET c == SteamCalls(j)[k]
        IN c.drv =>
             /\ ~c.ok
             /\ ~c.io
             /\ c.log = <<>>
             /\ c.err = "STEAM_USERNAME environment variable is required"
             /\ InList(failed_jobs, j)
             /\ ~InList(complete_jobs, j)
             /\ DictGet(FailedRecordOf(j), "status", "") = "failed"
             /\ DictGet(FailedRecordOf(j), "error", "") =
                  "Job processing failed: " \o
                  "STEAM_USERNAME environment variable is required"

C26_Witness ==
  /\ steam_username = ""
  /\ \E j \in JobIds :
       /\ InList(failed_jobs, j)
       /\ \E k \in 1..Len(SteamCalls(j)) :
            SteamCalls(j)[k].drv /\ ~SteamCalls(j)[k].io

(***************************************************************************)
(* C27: when the uploader subprocess exits with a non-zero code,           *)
(* upload_build raises an error carrying that exit code and returns no     *)
(* result, whatever the output holds, a "BuildID <digits>" line included:  *)
(* the job is aborted with that error and no build identifier is reported. *)
(***************************************************************************)
NonZeroExitCodes == {1, 2, 255}

C27_NonZeroExitIsFatal ==
  /\ \A j \in JobIds :
       \A k \in 1..Len(SteamCalls(j)) :
         LET c == SteamCalls(j)[k]
         IN (c.io /\ c.rc # 0) =>
              /\ ~c.ok
              /\ c.err = "SteamPipe upload failed with code " \o ToString(c.rc)
              /\ InList(failed_jobs, j)
              /\ ~InList(complete_jobs, j)
              /\ DictGet(FailedRecordOf(j), "error", "") =
                   "Job processing failed: " \o c.err
              /\ ~DictHas(FailedRecordOf(j), "steam_results")
  /\ \A rc \in NonZeroExitCodes, output \in UploaderOutputs,
        branch \in {"", "beta"} :
       LET r == upload_build("builder", "123", branch, rc, output)
       IN /\ ~r.ok
          /\ r.val = ""
          /\ r.err = "SteamPipe upload failed with code " \o ToString(rc)

C27_Witness ==
  \E j \in JobIds :
    \E k \in 1..Len(SteamCalls(j)) :
      LET c == SteamCalls(j)[k]
      IN /\ c.io
         /\ c.rc = 1
         /\ _extract_build_id(c.acc) = "9001"
         /\ InList(failed_jobs, j)

CompleteRecordOf(j) == Loads(Entries(complete_jobs, j)[1])

SteamResultsOf(j) == DictGet(CompleteRecordOf(j), "steam_results", <<>>)

OkSteamCalls(j) == SelectSeq(SteamCalls(j), LAMBDA c : c.ok)

(***************************************************************************)
(* C28: when the subprocess exits with code 0 the upload succeeds, and the *)
(* reported build identifier is that of the first line of the accumulated  *)
(* output that holds "BuildID" followed by digits ("9001" when a later     *)
(* line holds "BuildID 9002"); when no line does, the build identifier is  *)
(* absent, the result still reports success and the job is not aborted.    *)
(***************************************************************************)
C28_FirstBuildId ==
  \A j \in JobIds :
    /\ \A k \in 1..Len(SteamCalls(j)) :
         LET c == SteamCalls(j)[k]
         IN (c.io /\ c.rc = 0) => c.ok /\ c.err = ""
    /\ InList(complete_jobs, j) =>
         /\ Len(SteamResultsOf(j)) = Len(OkSteamCalls(j))
         /\ \A k \in 1..Len(SteamResultsOf(j)) :
              LET c == OkSteamCalls(j)[k]
                  result == SteamResultsOf(j)[k].result
                  matches == {i \in 1..Len(c.acc) : LineBuildId(c.acc[i]) # ""}
              IN /\ result.success
                 /\ matches = {} => result.build_id = ""
                 /\ matches # {} =>
                      \E i \in matches :
                        /\ \A m \in matches : i <= m
                        /\ result.build_id = LineBuildId(c.acc[i])
                 /\ result.build_id \in {"", "9001"}

C28_Witness ==
  \E j \in JobIds :
    /\ InList(complete_jobs, j)
    /\ ~InList(failed_jobs, j)
    /\ \E k \in 1..Len(SteamResultsOf(j)) :
         /\ SteamResultsOf(j)[k].result.build_id = ""
         /\ SteamResultsOf(j)[k].result.success
    /\ \E k \in 1..Len(SteamResultsOf(j)) :
         /\ SteamResultsOf(j)[k].result.build_id = "9001"
         /\ \E i \in 1..Len(OkSteamCalls(j)[k].acc) :
              LineBuildId(OkSteamCalls(j)[k].acc[i]) = "9002"

(***************************************************************************)
(* C29: in the result of a successful upload_build, branch-applied equals  *)
(* the requested branch exactly when a branch was requested and a build    *)
(* identifier was extracted; when no branch was requested or no build      *)
(* identifier was found, branch-applied is absent.                         *)
(***************************************************************************)
C29_BranchApplied ==
  \A j \in JobIds :
    InList(complete_jobs, j) =>
      \A k \in 1..Len(SteamResultsOf(j)) :
        LET result == SteamResultsOf(j)[k].result
            channel == SteamChannelsOf(j)[k]
        IN /\ SteamResultsOf(j)[k].channel = channel.label
           /\ (channel.branch # "" /\ result.build_id # "")
                => result.branch_set = channel.branch
           /\ (channel.branch = "" \/ result.build_id = "")
                => result.branch_set = ""

C29_Witness ==
  /\ \E j \in JobIds :
       /\ InList(complete_jobs, j)
       /\ \E k \in 1..Len(SteamResultsOf(j)) :
            /\ SteamChannelsOf(j)[k].branch = ""
            /\ SteamResultsOf(j)[k].result.build_id = "9001"
            /\ SteamResultsOf(j)[k].result.branch_set = ""
  /\ \E j \in JobIds :
       /\ InList(complete_jobs, j)
       /\ \E k \in 1..Len(SteamResultsOf(j)) :
            /\ SteamChannelsOf(j)[k].branch = "beta"
            /\ SteamResultsOf(j)[k].result.build_id = ""
            /\ SteamResultsOf(j)[k].result.branch_set = ""
       /\ \E k \in 1..Len(SteamResultsOf(j)) :
            /\ SteamResultsOf(j)[k].result.build_id = "9001"
            /\ SteamResultsOf(j)[k].result.branch_set = "beta"

Forwarded(c) ==
  LET logged == SelectSeq(c.log, LAMBDA e : e.op = "log")
  IN [i \in 1..Len(logged) |-> logged[i].line]

RECURSIVE JobLog(_)
JobLog(cs) ==
  IF cs = <<>>
    THEN <<>>
    ELSE [i \in 1..Len(Head(cs).log) |->
            [channel |-> Head(cs).idx, op |-> Head(cs).log[i].op]]
         \o JobLog(Tail(cs))

(***************************************************************************)
(* C30: every line the uploader subprocess produced is forwarded to the    *)
(* job's log in the order produced, each one before the next line is read  *)
(* and before the exit of the process is awaited; the accumulated output   *)
(* is the forwarded lines in the same order; and in the log of a job every *)
(* line of channel i comes before every line of channel i+1.               *)
(***************************************************************************)
C30_LinesForwardedInOrder ==
  \A j \in JobIds :
    /\ \A k \in 1..Len(SteamCalls(j)) :
         LET c == SteamCalls(j)[k]
         IN c.io =>
              /\ Len(c.log) = 2 * Len(c.out) + 1
              /\ \A n \in 1..Len(c.out) :
                   /\ c.log[2 * n - 1].op = "read" /\ c.log[2 * n - 1].n = n
                   /\ c.log[2 * n].op = "log" /\ c.log[2 * n].n = n
                   /\ c.log[2 * n].line = Text(_strip_ansi(rstrip(c.out[n])))
              /\ c.log[Len(c.log)].op = "wait"
              /\ c.acc = Forwarded(c)
              /\ Forwarded(c) \in
                   { <<"Uploading content...",
                       "Successfully finished AppID 123 build (BuildID 9001).",
                       "Committed as BuildID 9002 of AppID 123.">>,
                     <<"Uploading content...", "Done.">> }
    /\ \A a, b \in 1..Len(JobLog(SteamCalls(j))) :
         a < b => JobLog(SteamCalls(j))[a].channel <= JobLog(SteamCalls(j))[b].channel

C30_Witness ==
  \E j \in JobIds :
    /\ Len(SteamCalls(j)) = 2
    /\ SteamCalls(j)[1].io /\ SteamCalls(j)[2].io
    /\ Forwarded(SteamCalls(j)[1]) = <<"Uploading content...", "Done.">>
    /\ Len(Forwarded(SteamCalls(j)[2])) = 3
    /\ SteamCalls(j)[1].idx = 1 /\ SteamCalls(j)[2].idx = 2

(***************************************************************************)
(* The key and URL the claims name, written out from the channel config    *)
(* and the name of the uploaded file.                                      *)
(***************************************************************************)
KeyFor(prefix, file_name) ==
  IF prefix # "" THEN prefix \o "/" \o file_name ELSE file_name

UrlFor(config, key) ==
  IF config.endpoint = ""
    THEN "https://" \o config.bucketName \o ".s3." \o config.region \o
         ".amazonaws.com/" \o key
    ELSE config.endpoint \o "/" \o config.bucketName \o "/" \o key

UploadedName(j) ==
  LET p == DictGet(ConfigOf(j), "absoluteIngestPath", "")
  IN CASE p = "/in/build" -> j \o ".zip"
       [] p = "/in/build.zip" -> "build.zip"
       [] p = "/in/game.bin" -> "game.bin"
       [] OTHER -> ""

TerminalRecords(j) == Entries(complete_jobs, j) \o Entries(failed_jobs, j)

PrefixesTried == {"", "builds", "/builds/", "/"}

EndpointsTried == {"", "http://minio:9000"}

(***************************************************************************)
(* C31 as stated: the URL recorded for a content-delivery channel is built *)
(* from the key prefix/filename, with the path prefix as configured, when  *)
(* a prefix is configured, and from the filename alone otherwise.          *)
(***************************************************************************)
C31_KeyAndUrl ==
  \A j \in JobIds :
    \A r \in 1..Len(TerminalRecords(j)) :
      LET entries == ResultsIn(TerminalRecords(j)[r]).cdn
      IN \A k \in 1..Len(entries) :
           entries[k].url =
             UrlFor(CdnChannelsOf(j)[k],
                    KeyFor(CdnChannelsOf(j)[k].path, UploadedName(j)))

(***************************************************************************)
(* C31 amended: the key is prefix/filename where prefix is the configured  *)
(* path prefix without its leading and trailing slashes, and the filename  *)
(* alone when nothing is left of the prefix; the URL is                    *)
(* https://{bucket}.s3.{region}.amazonaws.com/{key} when no custom         *)
(* endpoint is configured and {endpoint}/{bucket}/{key} otherwise; for a   *)
(* directory ingest the filename is the job's archive name <id>.zip.       *)
(***************************************************************************)
C31_KeyAndUrlStripped ==
  /\ \A j \in JobIds :
       \A r \in 1..Len(TerminalRecords(j)) :
         LET entries == ResultsIn(TerminalRecords(j)[r]).cdn
         IN \A k \in 1..Len(entries) :
              /\ entries[k].channel = CdnChannelsOf(j)[k].label
              /\ entries[k].url =
                   UrlFor(CdnChannelsOf(j)[k],
                          KeyFor(StripSlashes(CdnChannelsOf(j)[k].path),
                                 UploadedName(j)))
              /\ (/\ UploadedName(j) = j \o ".zip"
                  /\ CdnChannelsOf(j)[k].bucketName = "b")
                   => entries[k].url =
                        "https://b.s3.us-east-1.amazonaws.com/" \o j \o ".zip"
  /\ \A prefix \in PrefixesTried, endpoint \in EndpointsTried :
       LET config == [CdnChannel("c", "b") EXCEPT !.path = prefix,
                                                  !.endpoint = endpoint]
           r == CDNUpload(config, "/in/game.bin", {}, TRUE)
       IN /\ r.ok
          /\ r.val = (IF endpoint = ""
                        THEN "https://b.s3.us-east-1.amazonaws.com/"
                        ELSE "http://minio:9000/b/") \o
                     (IF prefix \in {"builds", "/builds/"}
                        THEN "builds/game.bin"
                        ELSE "game.bin")

C31_Witness ==
  \E j \in JobIds :
    /\ InList(complete_jobs, j)
    /\ Len(ResultsIn(Entries(complete_jobs, j)[1]).cdn) = 2
    /\ ResultsIn(Entries(complete_jobs, j)[1]).cdn[1].url =
         "http://minio:9000/locked/builds/" \o j \o ".zip"
    /\ ResultsIn(Entries(complete_jobs, j)[1]).cdn[2].url =
         "https://b.s3.us-east-1.amazonaws.com/" \o j \o ".zip"

CdnCalls(j) == SelectSeq(calls[j], LAMBDA c : c.kind = "cdn")

AclRefusedIn(c) ==
  \E i \in 1..Len(c.log) :
    c.log[i].line =
      "Warning: Could not set public ACL: AccessControlListNotSupported"

(***************************************************************************)
(* C32: when a channel is marked public and setting the public-read        *)
(* policy on the uploaded object fails, the upload still succeeds: the     *)
(* driver returns the URL, the channel's result is recorded with success   *)
(* true, the next channel is processed, and the job can complete.          *)
(***************************************************************************)
C32_AclFailureIsNotFatal ==
  /\ \A j \in JobIds :
       \A k \in 1..Len(CdnCalls(j)) :
         LET c == CdnCalls(j)[k]
         IN AclRefusedIn(c) =>
              /\ CdnChannelsOf(j)[c.idx].isPublic
              /\ c.ok /\ c.err = ""
              /\ \/ (job # <<>> /\ DictGet(job, "id", "") = j
                       /\ Len(ResultsIn(Dumps(job)).cdn) >= k
                       /\ ResultsIn(Dumps(job)).cdn[k].success
                       /\ ResultsIn(Dumps(job)).cdn[k].url # "")
                 \/ \E r \in 1..Len(TerminalRecords(j)) :
                      LET entries == ResultsIn(TerminalRecords(j)[r]).cdn
                      IN /\ Len(entries) >= k
                         /\ entries[k].success
                         /\ entries[k].url =
                              "http://minio:9000/locked/builds/" \o j \o ".zip"
              /\ (InList(complete_jobs, j) \/ InList(failed_jobs, j))
                   => (c.idx < Len(CdnChannelsOf(j)) => Len(CdnCalls(j)) > k)
  /\ \A transferOk \in BOOLEAN, isPublic \in BOOLEAN :
       LET config == [CdnChannel("c", "locked") EXCEPT !.isPublic = isPublic]
       IN CDNUpload(config, "/in/game.bin", {}, transferOk).ok = transferOk

C32_Witness ==
  \E j \in JobIds :
    /\ InList(complete_jobs, j)
    /\ Len(CdnCalls(j)) = 2
    /\ AclRefusedIn(CdnCalls(j)[1])
    /\ ResultsIn(Entries(complete_jobs, j)[1]).cdn[1].success

(***************************************************************************)
(* The build directory handed to the descriptor builder for job j, and the *)
(* inputs of the descriptor builder at a release-channel call.             *)
(***************************************************************************)
BuildDirOf(j) ==
  LET p == DictGet(ConfigOf(j), "absoluteIngestPath", "")
  IN CASE p = "/in/build" -> "/in/build"
       [] p = "/in/build.zip" -> "/in/extract_" \o j
       [] OTHER -> "/in"

VdfInputs(j, c) ==
  [app_id |-> SteamChannelsOf(j)[c.idx].appId,
   depots |-> SteamChannelsOf(j)[c.idx].depots,
   branch |-> SteamChannelsOf(j)[c.idx].branch,
   build_path |-> BuildDirOf(j),
   description |-> DictGet(ConfigOf(j), "description", "")]

DescriptorCalls(j) == SelectSeq(calls[j], LAMBDA c : c.vdf # <<>>)

WithoutLine(lines, i) == SubSeq(lines, 1, i - 1) \o SubSeq(lines, i + 1, Len(lines))

DepotListsTried ==
  { <<[id |-> "1", path |-> "."]>>,
    <<[id |-> "1", path |-> "."], [id |-> "2", path |-> "dlc"]>> }

BuildDirsTried == {"/in/build", "/in"}

FixedDepotBlock(depot, build_path) ==
  << "        \"" \o depot.id \o "\"",
     "        {",
     "            \"ContentRoot\" \"" \o build_path \o "/" \o depot.path \o "\"",
     "            \"FileMapping\"",
     "            {",
     "                \"LocalPath\" \"*\"",
     "                \"DepotPath\" \".\"",
     "                \"Recursive\" \"1\"",
     "            }",
     "        }" >>

RECURSIVE FixedDepotBlocks(_, _)
FixedDepotBlocks(depots, build_path) ==
  IF depots = <<>>
    THEN <<>>
    ELSE FixedDepotBlock(Head(depots), build_path) \o
         FixedDepotBlocks(Tail(depots), build_path)

DepotsSection(vdf) ==
  LET open == CHOOSE i \in 1..Len(vdf) : vdf[i] = "    {"
  IN SubSeq(vdf, open + 1, Len(vdf) - 2)

(***************************************************************************)
(* C34: the manifest contains exactly one depot block per configured       *)
(* depot, in depot list order, and each block consists of exactly the      *)
(* lines of the fixed shape (the quoted depot id, an opening brace, the    *)
(* "ContentRoot" line, the "FileMapping" line, its braces enclosing        *)
(* "LocalPath" "*", "DepotPath" ".", "Recursive" "1", a closing brace)     *)
(* with no other line, blank or otherwise, inside the block.               *)
(***************************************************************************)
C34_DepotBlockShape ==
  \A j \in JobIds :
    \A k \in 1..Len(DescriptorCalls(j)) :
      LET c == DescriptorCalls(j)[k]
      IN DepotsSection(c.vdf) =
           FixedDepotBlocks(VdfInputs(j, c).depots, VdfInputs(j, c).build_path)

(***************************************************************************)
(* C35: the worker loop never stops: whatever payload was dequeued         *)
(* (invalid JSON, valid JSON that is not an object or lacks an id, a       *)
(* well-formed job whatever its outcome), the worker is either at the      *)
(* blocking dequeue or processing the job it dequeued last, and every      *)
(* payload dequeued before that one has been dealt with.                   *)
(***************************************************************************)
C35_LoopNeverStops ==
  /\ pc \in {"blpop", "cdn", "cdn_loop", "steam", "steam_loop", "complete"}
  /\ pc = "blpop" => job = <<>>
  /\ pc # "blpop" => job # <<>> /\ popped[Len(popped)] = DictGet(job, "id", "")

(***************************************************************************)
(* C36: a job that has content-delivery or release channels configured    *)
(* but lacks ingestPath or absoluteIngestPath is moved to the complete     *)
(* list and notified as completed, with empty result collections, without  *)
(* the resolver or any driver being invoked and without any error being    *)
(* recorded.                                                               *)
(***************************************************************************)
ChannelsWithoutPath(j) ==
  /\ ConfigOf(j) # <<>>
  /\ CdnChannelsOf(j) # <<>> \/ SteamChannelsOf(j) # <<>>
  /\ \/ DictGet(ConfigOf(j), "ingestPath", "") = ""
     \/ DictGet(ConfigOf(j), "absoluteIngestPath", "") = ""

C36_NoPathCompletesEmpty ==
  \A j \in JobIds :
    ChannelsWithoutPath(j) =>
      /\ calls[j] = <<>>
      /\ ~InList(failed_jobs, j)
      /\ (Popped(j) /\ ~InHand(j)) =>
           /\ Count(complete_jobs, j) = 1
           /\ ResultsIn(Entries(complete_jobs, j)[1]) =
                [cdn |-> <<>>, steam |-> <<>>]
           /\ ~DictHas(CompleteRecordOf(j), "error")
           /\ ~DictHas(CompleteRecordOf(j), "steam_results")
           /\ DictGet(CompleteRecordOf(j), "status", "") = "complete"
           /\ Len(NotificationsOf(j)) = 1
           /\ NotificationsOf(j)[1].status = "completed"
           /\ NotificationsOf(j)[1].error = ""

C36_Witness ==
  \E j \in JobIds :
    /\ ChannelsWithoutPath(j)
    /\ InList(complete_jobs, j)
    /\ Len(NotificationsOf(j)) = 1

(***************************************************************************)
(* Two workers: who took a job, who holds it, and whether the worker that  *)
(* holds it has put it on the running list.                                *)
(***************************************************************************)
TakersOf(j) == {t.worker : t \in {x \in taken : x.id = j}}

HoldersOf(j) ==
  {w \in Workers : workers[w].job # <<>> /\ DictGet(workers[w].job, "id", "") = j}

Started(w) == workers[w].pc \in {"cdn", "steam", "vdf", "upload", "complete"}

FleetQuiet == queued_jobs = <<>> /\ \A w \in Workers : workers[w].pc = "blpop"

(***************************************************************************)
(* C37: with two worker instances consuming the same work queue, every     *)
(* enqueued valid job is dequeued and processed by exactly one instance,   *)
(* is appended to exactly one terminal list (complete or failed) exactly   *)
(* once, and no instance's list mutation removes or duplicates the         *)
(* running-list entry of a job held by the other instance.                 *)
(***************************************************************************)
C37_OneOwnerPerJob ==
  \A j \in JobIds :
    /\ Cardinality(TakersOf(j)) = (IF InList(queued_jobs, j) THEN 0 ELSE 1)
    /\ Count(queued_jobs, j) <= 1
    /\ HoldersOf(j) \subseteq TakersOf(j)
    /\ Count(complete_jobs, j) + Count(failed_jobs, j) =
         (IF InList(queued_jobs, j) \/ HoldersOf(j) # {} THEN 0 ELSE 1)
    /\ Count(running_jobs, j) <= 1
    /\ \A w \in HoldersOf(j) :
         Started(w) =>
           /\ Count(running_jobs, j) = 1
           /\ Entries(running_jobs, j)[1] = workers[w].current_job
    /\ FleetQuiet => Count(complete_jobs, j) + Count(failed_jobs, j) = 1

C37_Witness ==
  /\ FleetQuiet
  /\ \E j1, j2 \in JobIds :
       /\ TakersOf(j1) = {"w1"}
       /\ TakersOf(j2) = {"w2"}
       /\ InList(complete_jobs, j1)
       /\ InList(failed_jobs, j2)
       /\ EnqueuePos(j2) < EnqueuePos(j1)

(***************************************************************************)
(* C38: with two worker instances sharing one filesystem, the descriptor   *)
(* file whose path is passed to an uploader subprocess contains, when that *)
(* subprocess is spawned, the manifest rendered for that same channel of   *)
(* that same job, also when both jobs target the same app id.              *)
(***************************************************************************)
C38_DescriptorOfOwnJob ==
  \A s \in spawned : s.read = s.rendered

====
